---------------------------- MODULE Spec2Model ----------------------------
(***************************************************************************)
(* A model of drf-json-api-utils: the fluent view builders of factory.py   *)
(* and the exception-to-response mapping of common.py.                     *)
(*                                                                         *)
(* The library is a set of independent operations, so the module holds     *)
(* one group of variables and one specification per operation group:       *)
(*   SpecRoutes   get_dict_by_methods                                      *)
(*   SpecList     JsonApiResourceViewBuilder._build._list                  *)
(*   SpecExc      exception_handler / handle_exception_gracefully          *)
(*   SpecDestroy  JsonApiModelViewBuilder._build.perform_destroy           *)
(*   SpecPerformList  JsonApiModelViewBuilder._build.perform_list          *)
(*   SpecBuilder  JsonApiModelViewBuilder construction and configuration   *)
(*   SpecSetters  JsonApiModelViewBuilder lifecycle setters                *)
(*   SpecBuild    JsonApiModelViewBuilder.get_urls: serializers and routes *)
(*   SpecOverride JsonApiModelViewBuilder.override on a built builder      *)
(*   SpecView     json_api_view and the routes of its builder              *)
(*   SpecLiar     constructors.py: LiarList and to_representation          *)
(*   SpecDump     sql_alchemy/constructors.py: json_api_dump               *)
(*   SpecRegistry namespace.py: the classes of several builders' builds    *)
(* Every specification leaves the variables of the groups it does not use  *)
(* in their idle state; SpecDestroy uses the builder it gives callbacks.   *)
(* The calls of SpecBuild, SpecOverride, SpecView, SpecLiar, SpecDump and  *)
(* SpecRegistry share the variables of one call: its name, arguments and   *)
(* result.                                                                 *)
(*                                                                         *)
(* Python strings that the code inspects character by character (query     *)
(* parameter keys and values, table names) are sequences of one-character  *)
(* strings; Str turns such a sequence into a TLA+ string.                  *)
(***************************************************************************)
EXTENDS Integers, Sequences, FiniteSets, TLC

VARIABLES
    \* get_dict_by_methods: the arguments of a call, whether it was made, its result
    view_type, allowed_http_methods, route_called, out,
    \* exception_handler: the attributes of the JsonApiGlobalSettings singleton,
    \* what the wrapped function does, and what the wrapper's caller gets
    settings, func, exc_pc, wrapper_result,
    \* JsonApiResourceViewBuilder._list: the builder's attributes, the query
    \* parameters of the request, and what the handler did
    list_builder, query_params, list_pc, list_result,
    \* JsonApiModelViewBuilder: the builder object's attributes, where its
    \* construction stands, the constructor's arguments, the configuration
    \* calls made on it, and what the last call did
    builder, builder_pc, builder_kwargs, builder_calls, builder_result,
    \* perform_destroy: the rows of the model's table, the instance of the
    \* last DELETE request, the builder's delete callbacks as the handler
    \* found them, the steps it took, and what the handler's caller got
    db, destroy_instance, destroy_callbacks, destroy_events, destroy_result,
    \* perform_list: the last GET request of the collection, the builder's
    \* list callbacks as the handler found them, the steps it took, and what
    \* the handler's caller got
    pl_request, pl_callbacks, pl_steps, pl_result,
    \* A call of one of the module-level functions and of the methods they
    \* define: which one, its arguments, and what the caller got
    call_name, call_args, call_result

routeVars == <<view_type, allowed_http_methods, route_called, out>>
excVars == <<settings, func, exc_pc, wrapper_result>>
listVars == <<list_builder, query_params, list_pc, list_result>>
builderVars == <<builder, builder_pc, builder_kwargs, builder_calls, builder_result>>
destroyVars == <<db, destroy_instance, destroy_callbacks, destroy_events, destroy_result>>
performListVars == <<pl_request, pl_callbacks, pl_steps, pl_result>>
callVars == <<call_name, call_args, call_result>>

vars == <<routeVars, excVars, listVars, builderVars, destroyVars, performListVars, callVars>>

\* What an operation of one group leaves alone: the variables of the others
notRouteVars == <<excVars, listVars, builderVars, destroyVars, performListVars, callVars>>
notExcVars == <<routeVars, listVars, builderVars, destroyVars, performListVars, callVars>>
notListVars == <<routeVars, excVars, builderVars, destroyVars, performListVars, callVars>>
notBuilderVars == <<routeVars, excVars, listVars, destroyVars, performListVars, callVars>>
notDestroyVars == <<routeVars, excVars, listVars, builderVars, performListVars, callVars>>
notPerformListVars == <<routeVars, excVars, listVars, builderVars, destroyVars, callVars>>
notCallVars == <<routeVars, excVars, listVars, builderVars, destroyVars, performListVars>>

-----------------------------------------------------------------------------
(* Python values and helpers shared by the operation groups *)

\* Python's None where a string-typed attribute or argument may be absent.
None == "None"

\* x in lst, for a Python list
InList(x, lst) == \E i \in 1..Len(lst) : lst[i] = x

\* The sequences over S of length at most n
SeqUpTo(S, n) == UNION {[1..k -> S] : k \in 0..n}

\* A Python dict as a function from its keys; d[k] = v
DictSet(d, k, v) == (k :> v) @@ d

EmptyDict == [x \in {} |-> ""]

\* ''.join(chars)
RECURSIVE Str(_)
Str(s) == IF s = <<>> THEN "" ELSE s[1] \o Str(Tail(s))

-----------------------------------------------------------------------------
(* Characters, and the Python string functions the code calls *)

LowerCase == <<"a", "b", "c", "d", "e", "f", "g", "h", "i", "j", "k", "l", "m",
               "n", "o", "p", "q", "r", "s", "t", "u", "v", "w", "x", "y", "z">>
UpperCase == <<"A", "B", "C", "D", "E", "F", "G", "H", "I", "J", "K", "L", "M",
               "N", "O", "P", "Q", "R", "S", "T", "U", "V", "W", "X", "Y", "Z">>
DecimalDigits == <<"0", "1", "2", "3", "4", "5", "6", "7", "8", "9">>

Range(seq) == {seq[i] : i \in 1..Len(seq)}
IndexOf(c, seq) == CHOOSE i \in 1..Len(seq) : seq[i] = c

LetterChars == Range(LowerCase) \cup Range(UpperCase)
DigitChars == Range(DecimalDigits)

\* c.lower(), the case folding of re.IGNORECASE on an ASCII letter
lower(c) == IF c \in Range(UpperCase) THEN LowerCase[IndexOf(c, UpperCase)] ELSE c

\* The number of characters of s from position p on that are in the class S
RECURSIVE RunLength(_, _, _)
RunLength(s, p, S) ==
    IF p > Len(s) \/ s[p] \notin S THEN 0 ELSE 1 + RunLength(s, p + 1, S)

\* The first position of character c in s at or after p, or 0
RECURSIVE Find(_, _, _)
Find(s, c, p) == IF p > Len(s) THEN 0 ELSE IF s[p] = c THEN p ELSE Find(s, c, p + 1)

\* s.split(sep), for a one-character separator
RECURSIVE split(_, _)
split(s, sep) ==
    LET i == Find(s, sep, 1)
    IN  IF i = 0 THEN <<s>>
        ELSE <<SubSeq(s, 1, i - 1)>> \o split(SubSeq(s, i + 1, Len(s)), sep)

\* The number a sequence of decimal digits writes
RECURSIVE DigitsValue(_)
DigitsValue(d) ==
    IF d = <<>> THEN 0
    ELSE 10 * DigitsValue(SubSeq(d, 1, Len(d) - 1)) + (IndexOf(d[Len(d)], DecimalDigits) - 1)

\* int(s) for a str s of digits with an optional sign (no blanks or
\* underscores, which the modelled requests do not hold): ok is FALSE where
\* int raises ValueError.
int(s) ==
    LET signed == Len(s) >= 1 /\ s[1] \in {"-", "+"}
        d == IF signed THEN Tail(s) ELSE s
    IN  IF d /= <<>> /\ \A i \in 1..Len(d) : d[i] \in DigitChars
        THEN [ok |-> TRUE, n |-> IF signed /\ s[1] = "-" THEN 0 - DigitsValue(d) ELSE DigitsValue(d)]
        ELSE [ok |-> FALSE, n |-> 0]

\* A slip of the code's kind: the quotient is rounded down (a // b).
ceil_div_Floor(a, b) == a \div b

\* math.ceil(a / b) for b > 0
ceil_div(a, b) == 0 - ((0 - a) \div b)

-----------------------------------------------------------------------------
(* Python values as ast.literal_eval produces them *)

PyStr(chars) == [t |-> "str", s |-> chars, items |-> <<>>]
\* An int keeps its decimal digits, without leading zeros
PyInt(digits) == [t |-> "int", s |-> digits, items |-> <<>>]
PyTuple(items) == [t |-> "tuple", s |-> <<>>, items |-> items]
PyList(items) == [t |-> "list", s |-> <<>>, items |-> items]

ParseFail == [ok |-> FALSE, val |-> PyStr(<<>>), next |-> 0]
Parsed(val, next) == [ok |-> TRUE, val |-> val, next |-> next]

IsTripleQuoteAt(s, p) ==
    p + 2 <= Len(s) /\ s[p] = "'" /\ s[p + 1] = "'" /\ s[p + 2] = "'"

\* The first position of a triple quote in s at or after p, or 0
RECURSIVE FindTripleQuote(_, _)
FindTripleQuote(s, p) ==
    IF p + 2 > Len(s) THEN 0
    ELSE IF IsTripleQuoteAt(s, p) THEN p ELSE FindTripleQuote(s, p + 1)

\* One string literal whose opening quote is at p, single or triple quoted
StringLiteral(s, p) ==
    IF IsTripleQuoteAt(s, p) THEN
        LET q == FindTripleQuote(s, p + 3)
        IN  IF q = 0 THEN ParseFail ELSE Parsed(PyStr(SubSeq(s, p + 3, q - 1)), q + 3)
    ELSE
        LET q == Find(s, "'", p + 1)
        IN  IF q = 0 THEN ParseFail ELSE Parsed(PyStr(SubSeq(s, p + 1, q - 1)), q + 1)

\* Adjacent string literals are one string: 'a' 'b' written without a blank
\* is 'ab'
RECURSIVE StringLiterals(_, _, _)
\* ... after the literal lit, with the characters acc of the ones before it
StringLiteralsAfter(s, acc, lit) ==
    IF ~lit.ok THEN ParseFail
    ELSE IF lit.next <= Len(s) /\ s[lit.next] = "'"
         THEN StringLiterals(s, lit.next, acc \o lit.val.s)
         ELSE Parsed(PyStr(acc \o lit.val.s), lit.next)

StringLiterals(s, p, acc) == StringLiteralsAfter(s, acc, StringLiteral(s, p))

\* A decimal integer literal at p: no leading zero unless it is all zeros
IntLiteral(s, p) ==
    LET n == RunLength(s, p, DigitChars)
        d == SubSeq(s, p, p + n - 1)
    IN  IF \A i \in 1..n : d[i] = "0" THEN Parsed(PyInt(<<"0">>), p + n)
        ELSE IF d[1] = "0" THEN ParseFail
        ELSE Parsed(PyInt(d), p + n)

\* One element of an expression list at p: an int or a string.  A bare
\* name is not a literal (the modelled values hold none of True, False,
\* None, nor a string prefix letter before a quote).
Literal(s, p) ==
    IF p > Len(s) THEN ParseFail
    ELSE IF s[p] \in DigitChars THEN IntLiteral(s, p)
    ELSE IF s[p] = "'" THEN StringLiterals(s, p, <<>>)
    ELSE ParseFail

\* literal (',' literal)* [',']: one literal is its value, a comma makes a tuple
RECURSIVE ExpressionList(_, _, _)
\* ... after the element e, with the elements acc before it
ExpressionListAfter(s, acc, e) ==
    IF ~e.ok THEN ParseFail
    ELSE IF e.next > Len(s)
         THEN Parsed(IF acc = <<>> THEN e.val ELSE PyTuple(Append(acc, e.val)), e.next)
    ELSE IF s[e.next] /= "," THEN ParseFail
    ELSE IF e.next = Len(s) THEN Parsed(PyTuple(Append(acc, e.val)), e.next + 1)
    ELSE ExpressionList(s, e.next + 1, Append(acc, e.val))

ExpressionList(s, p, acc) == ExpressionListAfter(s, acc, Literal(s, p))

\* ast.literal_eval(value) on a string of letters, digits, commas and single
\* quotes; ok is FALSE where it raises.
literal_eval(value) == ExpressionList(value, 1, <<>>)

-----------------------------------------------------------------------------
(* json_api_spec_http_methods: the HTTP method names *)

HTTP_GET == "GET"
HTTP_POST == "POST"
HTTP_PATCH == "PATCH"
HTTP_DELETE == "DELETE"

-----------------------------------------------------------------------------
(* get_dict_by_methods (factory.py) *)

\* A bound: the longest allowed_http_methods list tried
MaxAllowed == 3

\* The method names a caller may put in allowed_http_methods
MethodNames == {HTTP_GET, HTTP_POST, HTTP_PATCH, HTTP_DELETE, "PUT"}

\* The view types tried: the three the code knows and one it does not
ViewTypes == {"get", "list", "relation", "detail"}

\* if <method> in allowed_http_methods: out[<key>] = <action>
SetIfAllowed(d, method, allowed, key, action) ==
    IF InList(method, allowed) THEN DictSet(d, key, action) ELSE d

\* A slip of the code's kind: the DELETE entry is added without looking at
\* allowed_http_methods.
get_dict_by_methods_NoDeleteCheck(vt, allowed) ==
    IF vt = "get" THEN
        DictSet(SetIfAllowed(SetIfAllowed(EmptyDict, HTTP_GET, allowed, "get", "retrieve"),
                             HTTP_PATCH, allowed, "patch", "update"),
                "delete", "destroy")
    ELSE IF vt = "list" THEN
        SetIfAllowed(SetIfAllowed(EmptyDict, HTTP_GET, allowed, "get", "list"),
                     HTTP_POST, allowed, "post", "create")
    ELSE IF vt = "relation" THEN
        SetIfAllowed(EmptyDict, HTTP_GET, allowed, "get", "retrieve_related")
    ELSE EmptyDict

get_dict_by_methods(vt, allowed) ==
    IF vt = "get" THEN
        SetIfAllowed(SetIfAllowed(SetIfAllowed(EmptyDict, HTTP_GET, allowed, "get", "retrieve"),
                                  HTTP_PATCH, allowed, "patch", "update"),
                     HTTP_DELETE, allowed, "delete", "destroy")
    ELSE IF vt = "list" THEN
        SetIfAllowed(SetIfAllowed(EmptyDict, HTTP_GET, allowed, "get", "list"),
                     HTTP_POST, allowed, "post", "create")
    ELSE IF vt = "relation" THEN
        SetIfAllowed(EmptyDict, HTTP_GET, allowed, "get", "retrieve_related")
    ELSE EmptyDict

\* No call is under way.
IdleRoutes ==
    /\ view_type = None
    /\ allowed_http_methods = <<>>
    /\ route_called = FALSE
    /\ out = EmptyDict

\* The arguments of the call are drawn from the bounded sets.
InitRoutes ==
    /\ view_type \in ViewTypes
    /\ allowed_http_methods \in SeqUpTo(MethodNames, MaxAllowed)
    /\ route_called = FALSE
    /\ out = EmptyDict

\* The call get_dict_by_methods(view_type, allowed_http_methods)
CallGetDictByMethods ==
    /\ ~route_called
    /\ route_called' = TRUE
    /\ out' = get_dict_by_methods(view_type, allowed_http_methods)
    /\ UNCHANGED <<view_type, allowed_http_methods, notRouteVars>>

NextRoutes == CallGetDictByMethods

-----------------------------------------------------------------------------
(* exception_handler and handle_exception_gracefully (common.py) *)

\* rest_framework.status.HTTP_500_INTERNAL_SERVER_ERROR
HTTP_500_INTERNAL_SERVER_ERROR == 500

\* Response(data=..., status=...)
Response(data, status) == [data |-> data, status |-> status]

\* The place of a response where there is none
NoResponse == [data |-> [nothing |-> None], status |-> 0]

\* An exception object: str(exception) and its http_status attribute, if any
Exception(message, has_http_status, http_status) ==
    [message |-> message, has_http_status |-> has_http_status, http_status |-> http_status]

NoException == Exception(None, FALSE, 0)

\* The exceptions a wrapped view function raises in the model
Exceptions ==
    {Exception(m, h, IF h THEN c ELSE 0) : m \in {"not found", "boom"}, h \in BOOLEAN, c \in {404}}

\* getattr(settings, name) on an attribute that was never set
AttributeErrorOf(name) ==
    Exception("'JsonApiGlobalSettings' object has no attribute '" \o name \o "'", FALSE, 0)

\* An attribute of the settings singleton: never set, set to None, or set to
\* a callable, which raises or returns `returns` when called.
Unset == [state |-> "unset", raises |-> FALSE, returns |-> NoResponse]
SetToNone == [state |-> "none", raises |-> FALSE, returns |-> NoResponse]
Callable(raises, returns) == [state |-> "callable", raises |-> raises, returns |-> returns]

\* What a callback raises when it raises
CallbackError == Exception("callback failed", FALSE, 0)

\* The responses user code (the wrapped function, the response handler, the
\* callback) returns in the model
UserResponses == {Response([result |-> "ok"], 200), Response([result |-> "handled"], 400)}

\* The values the application may assign to a settings attribute
SettingValues ==
    {SetToNone} \cup {Callable(TRUE, NoResponse)} \cup {Callable(FALSE, r) : r \in UserResponses}

\* What the wrapped function does when called: return a response or raise
FuncBehaviours ==
    {[raises |-> FALSE, returns |-> r, exc |-> NoException] : r \in UserResponses}
    \cup {[raises |-> TRUE, returns |-> NoResponse, exc |-> e] : e \in Exceptions}

\* What the caller of a function gets: its return value, or the exception
\* that propagates; calls lists the settings callables invoked, in order,
\* each with its argument.
Returned(response, calls) ==
    [propagated |-> FALSE, exc |-> NoException, response |-> response, calls |-> calls]
Propagated(exc, calls) ==
    [propagated |-> TRUE, exc |-> exc, response |-> NoResponse, calls |-> calls]

\* getattr(exception, 'http_status', HTTP_500_INTERNAL_SERVER_ERROR)
StatusOf(exception) ==
    IF exception.has_http_status THEN exception.http_status ELSE HTTP_500_INTERNAL_SERVER_ERROR

\* Response(data={'attributes': {'message': str(exception)}}, status=...)
DefaultErrorResponse(exception) ==
    Response([attributes |-> [message |-> exception.message]], StatusOf(exception))

\* A slip of the code's kind: the response handler is invoked first and the
\* callback after it.
handle_exception_gracefully_HandlerFirst(st, exception) ==
    LET cb == st.exception_callback
        rh == st.exception_response_handler
        called_rh == IF rh.state = "callable"
                     THEN <<[fn |-> "exception_response_handler", arg |-> exception]>> ELSE <<>>
        called_cb == IF cb.state = "callable"
                     THEN <<[fn |-> "exception_callback", arg |-> exception]>> ELSE <<>>
    IN  IF cb.state = "unset" THEN Propagated(AttributeErrorOf("exception_callback"), <<>>)
        ELSE IF rh.state = "callable" /\ rh.raises THEN Propagated(CallbackError, called_rh)
        ELSE IF cb.state = "callable" /\ cb.raises
             THEN Propagated(CallbackError, called_rh \o called_cb)
        ELSE IF rh.state = "callable" THEN Returned(rh.returns, called_rh \o called_cb)
        ELSE Returned(DefaultErrorResponse(exception), called_cb)

\* handle_exception_gracefully(exception), reading the settings singleton st
handle_exception_gracefully(st, exception) ==
    LET \* getattr(settings, 'exception_response_handler', None)
        rh == IF st.exception_response_handler.state = "unset"
              THEN SetToNone ELSE st.exception_response_handler
        cb == st.exception_callback
        called_cb == <<[fn |-> "exception_callback", arg |-> exception]>>
        called_rh == <<[fn |-> "exception_response_handler", arg |-> exception]>>
    IN  \* getattr(settings, 'exception_callback') has no default
        IF cb.state = "unset" THEN Propagated(AttributeErrorOf("exception_callback"), <<>>)
        ELSE IF cb.state = "callable" /\ cb.raises THEN Propagated(CallbackError, called_cb)
        ELSE LET calls == IF cb.state = "callable" THEN called_cb ELSE <<>>
             IN  IF rh.state = "callable"
                 THEN IF rh.raises THEN Propagated(CallbackError, calls \o called_rh)
                      ELSE Returned(rh.returns, calls \o called_rh)
                 ELSE Returned(DefaultErrorResponse(exception), calls)

\* exception_handler(func)(*args, **kwargs), where func behaves as f
exception_handler(st, f) ==
    IF ~f.raises THEN Returned(f.returns, <<>>)
    ELSE handle_exception_gracefully(st, f.exc)

NoFunc == [raises |-> FALSE, returns |-> NoResponse, exc |-> NoException]

\* The singleton has no attribute, and no wrapped function was called.
IdleExc ==
    /\ settings = [exception_callback |-> Unset, exception_response_handler |-> Unset]
    /\ func = NoFunc
    /\ exc_pc = "idle"
    /\ wrapper_result = Returned(NoResponse, <<>>)

InitExc == IdleExc

\* The application sets JsonApiGlobalSettings().exception_callback = v
SetExceptionCallback(v) ==
    /\ exc_pc = "idle"
    /\ settings.exception_callback = Unset
    /\ settings' = [settings EXCEPT !.exception_callback = v]
    /\ UNCHANGED <<func, exc_pc, wrapper_result, notExcVars>>

\* The application sets JsonApiGlobalSettings().exception_response_handler = v
SetExceptionResponseHandler(v) ==
    /\ exc_pc = "idle"
    /\ settings.exception_response_handler = Unset
    /\ settings' = [settings EXCEPT !.exception_response_handler = v]
    /\ UNCHANGED <<func, exc_pc, wrapper_result, notExcVars>>

\* A call of a view function wrapped by exception_handler
CallWrapped(f) ==
    /\ exc_pc = "idle"
    /\ func' = f
    /\ exc_pc' = "done"
    /\ wrapper_result' = exception_handler(settings, f)
    /\ UNCHANGED <<settings, notExcVars>>

NextExc ==
    \/ \E v \in SettingValues : SetExceptionCallback(v)
    \/ \E v \in SettingValues : SetExceptionResponseHandler(v)
    \/ \E f \in FuncBehaviours : CallWrapped(f)

-----------------------------------------------------------------------------
(* FILTER_REGEX and FILTER_MAP (factory.py) *)

\* The literal start of FILTER_REGEX: filter\[
FILTER_LITERAL == <<"f", "i", "l", "t", "e", "r", "[">>

\* The character class [\w_\-] of the field and op groups
FieldChars == LetterChars \cup DigitChars \cup {"_", "-"}

\* match.groupdict() of a match, or no match; has_op is FALSE where
\* groupdict()['op'] is None
NoMatch == [matched |-> FALSE, field |-> <<>>, has_op |-> FALSE, op |-> <<>>]

\* (?P<op>[\w_\-]+)?\] at p: the longest op of at most n characters that
\* is followed by "]", then no op at all; -1 where neither matches
RECURSIVE MatchOp(_, _, _)
MatchOp(s, p, n) ==
    IF p + n <= Len(s) /\ s[p + n] = "]" THEN n
    ELSE IF n = 0 THEN -1
    ELSE MatchOp(s, p, n - 1)

\* [\.]* at p, then the op group: the most dots first
RECURSIVE MatchDots(_, _, _)
MatchDots(s, p, n) ==
    LET m == MatchOp(s, p + n, RunLength(s, p + n, FieldChars))
    IN  IF m >= 0 THEN [ok |-> TRUE, dots |-> n, op_len |-> m]
        ELSE IF n = 0 THEN [ok |-> FALSE, dots |-> 0, op_len |-> 0]
        ELSE MatchDots(s, p, n - 1)

\* (?P<field>[\w_\-]+) of n characters after the literal, then the rest;
\* the longest field first
RECURSIVE MatchField(_, _)
MatchField(s, n) ==
    IF n = 0 THEN NoMatch
    ELSE LET start == Len(FILTER_LITERAL) + 1
             p == start + n
             r == MatchDots(s, p, RunLength(s, p, {"."}))
         IN  IF r.ok
             THEN [matched |-> TRUE,
                   field |-> SubSeq(s, start, p - 1),
                   has_op |-> r.op_len > 0,
                   op |-> SubSeq(s, p + r.dots, p + r.dots + r.op_len - 1)]
             ELSE MatchField(s, n - 1)

\* A slip of the code's kind: the dot and the op are optional no more, so
\* filter[<field>] matches nothing.
FILTER_REGEX_match_OpRequired(key) ==
    IF /\ Len(key) >= Len(FILTER_LITERAL)
       /\ \A i \in 1..Len(FILTER_LITERAL) : lower(key[i]) = FILTER_LITERAL[i]
    THEN LET m == MatchField(key, RunLength(key, Len(FILTER_LITERAL) + 1, FieldChars))
         IN  IF m.matched /\ m.has_op THEN m ELSE NoMatch
    ELSE NoMatch

\* FILTER_REGEX.match(key): the pattern, case-insensitively, at the start of key
FILTER_REGEX_match(key) ==
    IF /\ Len(key) >= Len(FILTER_LITERAL)
       /\ \A i \in 1..Len(FILTER_LITERAL) : lower(key[i]) = FILTER_LITERAL[i]
    THEN MatchField(key, RunLength(key, Len(FILTER_LITERAL) + 1, FieldChars))
    ELSE NoMatch

FILTER_MAP ==
    ("is_null" :> "is_null") @@ ("is_not_null" :> "is_not_null") @@
    ("eq" :> "==") @@ ("ne" :> "!=") @@ ("gt" :> ">") @@ ("lt" :> "<") @@
    ("gte" :> ">=") @@ ("gle" :> "<=") @@
    ("contains" :> "like") @@ ("icontains" :> "ilike") @@
    ("not_icontains" :> "not_ilike") @@ ("not_contains" :> "not_like") @@
    ("in" :> "in") @@ ("not_in" :> "not_in") @@ ("any" :> "any") @@ ("not_any" :> "not_any")

\* A slip of the code's kind: the token itself is the default
\* (FILTER_MAP.get(op, op)), so an unknown token passes through.
FilterOp_TokenAsDefault(match) ==
    IF ~match.has_op THEN "=="
    ELSE IF Str(match.op) \in DOMAIN FILTER_MAP THEN FILTER_MAP[Str(match.op)]
    ELSE Str(match.op)

\* FILTER_MAP.get(match.groupdict()['op'], '==')
FilterOp(match) ==
    IF match.has_op /\ Str(match.op) \in DOMAIN FILTER_MAP
    THEN FILTER_MAP[Str(match.op)] ELSE "=="

\* op in ['in', 'not_in', 'any', 'not_any']
MultipleValues(op) == op \in {"in", "not_in", "any", "not_any"}

-----------------------------------------------------------------------------
(* JsonApiResourceViewBuilder and its list handler _list (factory.py) *)

\* Bounds: the most query parameters of a request, the largest count the
\* on_list callback reports, the largest page size a builder is given
MaxParams == 2
MaxCount == 3
MaxPageSize == 2

PAGE_NUMBER == <<"p", "a", "g", "e", "_", "n", "u", "m", "b", "e", "r">>
INCLUDE == <<"i", "n", "c", "l", "u", "d", "e">>

\* JsonApiResourceViewBuilder(action_name=..., unique_identifier=...,
\* raw_items=..., page_size=...): the attributes _list reads
JsonApiResourceViewBuilder(action_name, unique_identifier, raw_items, page_size) ==
    [_resource_name |-> action_name,
     _unique_identifier |-> unique_identifier,
     _raw_items |-> ~raw_items,
     _page_size |-> page_size,
     _on_list_callback |-> FALSE]

\* builder.on_list(list_callback): the callback is set (is not None)
on_list(self) == [self EXCEPT !._on_list_callback = TRUE]

\* params.get(key): the value of the parameter named key, if there is one
ParamGet(params, key) ==
    IF \E i \in 1..Len(params) : params[i].key = key
    THEN [found |-> TRUE, value |-> params[CHOOSE i \in 1..Len(params) : params[i].key = key].value]
    ELSE [found |-> FALSE, value |-> <<>>]

\* try: value = ast.literal_eval(value) / except: pass
ValueOrRaw(r, value) == IF r.ok THEN r.val ELSE PyStr(value)
EvaluatedValue(value) == ValueOrRaw(literal_eval(value), value)

\* value.split(',') as a Python list of str
SplitValues(value) ==
    LET parts == split(value.s, ",")
    IN  PyList([i \in 1..Len(parts) |-> PyStr(parts[i])])

\* for key, value in params.items(): ... filters.append(...), from the i-th
\* parameter on; raised where value.split raises AttributeError, with the
\* filters appended until then
RECURSIVE FilterLoop(_, _, _)
\* The body of the loop for the i-th parameter, with the match of its key,
\* its evaluated value and the mapped op, and then the rest of the loop
FilterLoopBody(params, i, filters, match, value, op) ==
    IF ~match.matched THEN FilterLoop(params, i + 1, filters)
    ELSE IF MultipleValues(op) /\ value.t /= "str"
    THEN [raised |-> TRUE,
          exc |-> Exception("'" \o value.t \o "' object has no attribute 'split'", FALSE, 0),
          filters |-> filters]
    ELSE FilterLoop(params, i + 1,
                    Append(filters,
                           [field |-> Str(match.field),
                            op |-> op,
                            value |-> IF MultipleValues(op)
                                      THEN SplitValues(value) ELSE value]))

FilterLoopStep(params, i, filters, match) ==
    FilterLoopBody(params, i, filters, match, EvaluatedValue(params[i].value), FilterOp(match))

FilterLoop(params, i, filters) ==
    IF i > Len(params) THEN [raised |-> FALSE, exc |-> NoException, filters |-> filters]
    ELSE FilterLoopStep(params, i, filters, FILTER_REGEX_match(params[i].key))

\* f"/api/{self._resource_name}?page_number={n}", and None
Link(self, n) == [null |-> FALSE, path |-> "/api/" \o self._resource_name, page_number |-> n]
NullLink == [null |-> TRUE, path |-> "", page_number |-> 0]

\* item.get(key, None)
DictGet(item, key) == IF key \in DOMAIN item THEN item[key] ELSE None

\* {'id': item.get(...), 'type': ..., 'attributes': item} if self._raw_items else item
DataItem(self, item) ==
    IF self._raw_items
    THEN [id |-> DictGet(item, self._unique_identifier),
          type |-> self._resource_name,
          attributes |-> item]
    ELSE item

\* The Response of _list for page `page` and the callback's return value cb
ListResponse(self, page, cb) ==
    LET pages == ceil_div(cb.count, self._page_size)
    IN  Response(
            [links |-> [first |-> Link(self, 1),
                        last |-> Link(self, pages),
                        next |-> IF page = pages \/ pages <= 1
                                 THEN NullLink ELSE Link(self, page + 1),
                        previous |-> IF page <= 1 THEN NullLink ELSE Link(self, page - 1)],
             data |-> [i \in 1..Len(cb.data) |-> DataItem(self, cb.data[i])],
             included |-> cb.included,
             meta |-> [pagination |-> [page |-> page, pages |-> pages, count |-> cb.count]]],
            cb.status)

\* What one call of _list did: the filters list as built, whether the
\* on_list callback was called and with which page and includes, and what
\* the function body did (returned a Response or None, or raised)
ListOutcome(filters, called, page, includes, raises, returns, exc) ==
    [filters |-> filters, called |-> called, page |-> page, includes |-> includes,
     body |-> [raises |-> raises, returns |-> returns, exc |-> exc]]

\* The rest of _list after the filter loop, for the loop's outcome, the
\* page_number parameter, its int() and the include list
list_after_loop(self, params, cb, loop, page_number, page, includes) ==
    IF loop.raised
    THEN ListOutcome(loop.filters, FALSE, 0, <<>>, TRUE, NoResponse, loop.exc)
    ELSE IF ~page.ok
    THEN ListOutcome(loop.filters, FALSE, 0, <<>>, TRUE, NoResponse,
                     Exception("invalid literal for int() with base 10: '"
                                   \o Str(page_number.value) \o "'", FALSE, 0))
    ELSE IF ~self._on_list_callback
    THEN \* the function falls off its end and returns None
         ListOutcome(loop.filters, FALSE, page.n, includes, FALSE, NoResponse, NoException)
    ELSE IF self._page_size = 0
    THEN ListOutcome(loop.filters, TRUE, page.n, includes, TRUE, NoResponse,
                     Exception("division by zero", FALSE, 0))
    ELSE ListOutcome(loop.filters, TRUE, page.n, includes, FALSE,
                     ListResponse(self, page.n, cb), NoException)

\* int(params.get('page_number', 1))
PageOf(page_number) == IF page_number.found THEN int(page_number.value) ELSE [ok |-> TRUE, n |-> 1]

\* include = params.get('include', ''); include.split(',') if include else []
IncludesOf(include) == IF include /= <<>> THEN split(include, ",") ELSE <<>>

\* _list from page = int(params.get('page_number', 1)) on
list_with_page(self, params, cb, loop, page_number) ==
    list_after_loop(self, params, cb, loop, page_number, PageOf(page_number),
                    IncludesOf(ParamGet(params, INCLUDE).value))

\* The body of _list(view, request), for the query parameters params and an
\* on_list callback that returns cb
list_body(self, params, cb) ==
    list_with_page(self, params, cb, FilterLoop(params, 1, <<>>), ParamGet(params, PAGE_NUMBER))

\* Raw query parameter values: words and numbers separated by commas, a
\* quoted string, a number
WORDS == <<"a", ",", "x">>
NUMBERS == <<"1", ",", "2">>
QUOTED == <<"'", "a", ",", "x", "'">>
NUMBER == <<"7">>

\* The query parameters a request may hold.  Filter keys: a bare field, an
\* operator that takes several values, a known and an unknown operator, a
\* key of another case with two dots and text after the bracket, a dotted
\* field; then a page number and an include list.
QueryParams ==
    {[key |-> FILTER_LITERAL \o <<"a", "]">>, value |-> QUOTED]}
    \cup {[key |-> FILTER_LITERAL \o <<"a", ".", "i", "n", "]">>, value |-> v] :
              v \in {WORDS, NUMBERS, QUOTED}}
    \cup {[key |-> FILTER_LITERAL \o <<"x", ".", "g", "t", "e", "]">>, value |-> v] :
              v \in {NUMBERS, NUMBER}}
    \cup {[key |-> FILTER_LITERAL \o <<"x", ".", "z", "z", "]">>, value |-> WORDS]}
    \cup {[key |-> <<"F", "i", "l", "t", "e", "r", "[", "y", ".", ".",
                     "n", "o", "t", "_", "a", "n", "y", "]", "z">>, value |-> WORDS]}
    \cup {[key |-> FILTER_LITERAL \o <<"a", ".", "x", ".", "e", "q", "]">>, value |-> NUMBER]}
    \cup {[key |-> PAGE_NUMBER, value |-> v] : v \in {<<"2">>, <<"x">>}}
    \cup {[key |-> INCLUDE, value |-> WORDS]}

\* What the on_list callback returns: (data, included, count, status)
CallbackResults ==
    {[data |-> IF c = 0 THEN <<>> ELSE <<("id" :> "7") @@ ("title" :> "t")>>,
      included |-> <<>>,
      count |-> c,
      status |-> 200] : c \in 0..MaxCount}

NoCallbackResult == [data |-> <<>>, included |-> <<>>, count |-> 0, status |-> 0]

NoListOutcome ==
    [filters |-> <<>>, called |-> FALSE, page |-> 0, includes |-> <<>>,
     body |-> [raises |-> FALSE, returns |-> NoResponse, exc |-> NoException],
     callback_returned |-> NoCallbackResult,
     result |-> Returned(NoResponse, <<>>)]

\* No resource view is under way.
IdleList ==
    /\ list_builder = JsonApiResourceViewBuilder("articles", "id", FALSE, 0)
    /\ query_params = <<>>
    /\ list_pc = "idle"
    /\ list_result = NoListOutcome

\* A resource builder, with or without an on_list callback, and a request
\* with no query parameter yet
InitList ==
    /\ \E raw_items \in BOOLEAN, page_size \in 0..MaxPageSize :
          LET b == JsonApiResourceViewBuilder("articles", "id", raw_items, page_size)
          IN  list_builder \in {b, on_list(b)}
    /\ query_params = <<>>
    /\ list_pc = "request"
    /\ list_result = NoListOutcome

\* The client adds a query parameter to the request (a QueryDict yields each
\* key once)
AddQueryParam(param) ==
    /\ list_pc = "request"
    /\ Len(query_params) < MaxParams
    /\ \A i \in 1..Len(query_params) : query_params[i].key /= param.key
    /\ query_params' = Append(query_params, param)
    /\ UNCHANGED <<list_builder, list_pc, list_result, notListVars>>

\* The request is served by exception_handler(_list)
List(cb) ==
    /\ list_pc = "request"
    /\ list_pc' = "done"
    /\ LET o == list_body(list_builder, query_params, cb)
       IN  list_result' =
               [filters |-> o.filters, called |-> o.called, page |-> o.page,
                includes |-> o.includes, body |-> o.body,
                callback_returned |-> IF o.called THEN cb ELSE NoCallbackResult,
                result |-> exception_handler(settings, o.body)]
    /\ UNCHANGED <<list_builder, query_params, notListVars>>

NextList ==
    \/ \E param \in QueryParams : AddQueryParam(param)
    \/ \E cb \in CallbackResults : List(cb)

-----------------------------------------------------------------------------
(* JsonApiModelViewBuilder: construction and override (factory.py) *)

\* common.DEFAULT_PAGE_SIZE
DEFAULT_PAGE_SIZE == 50
\* JsonApiModelViewBuilder.DEFAULT_RELATED_LIMIT
DEFAULT_RELATED_LIMIT == 100
DEFAULT_VOID_DECORATOR == "DEFAULT_VOID_DECORATOR"

\* json_api_spec_http_methods.HTTP_ALL
HTTP_ALL == <<HTTP_GET, HTTP_POST, HTTP_PATCH, HTTP_DELETE>>

\* An argument or attribute that may be None: None, or a value
NoneValue == [is_none |-> TRUE]
Some(v) == [is_none |-> FALSE, value |-> v]

\* A Django model class, by model._meta.db_table
Model(db_table) == [db_table |-> db_table]
Article == Model(<<"b", "l", "o", "g", "_", "a", "r", "t", "i", "c", "l", "e">>)

\* model.objects, the default manager of a model
Manager(model) == Str(model.db_table) \o ".objects"

\* s.replace(c, '')
replace(s, c) == SelectSeq(s, LAMBDA x : x /= c)

\* repr of a list of str: ['a', 'b']
RECURSIVE JoinRepr(_)
JoinRepr(lst) ==
    IF lst = <<>> THEN ""
    ELSE "'" \o lst[1] \o "'" \o (IF Len(lst) > 1 THEN ", " ELSE "") \o JoinRepr(Tail(lst))
ListRepr(lst) == "[" \o JoinRepr(lst) \o "]"

\* The attribute table: attribute, the keyword argument it is set from (or
\* None), its default
Attribute(attribute, kwarg, default) ==
    [attribute |-> attribute, kwarg |-> kwarg, default |-> default]

ATTRIBUTES ==
    << Attribute("_model", "model", NoneValue),
       Attribute("_fields", None, Some(EmptyDict)),
       Attribute("_filters", None, Some(EmptyDict)),
       Attribute("_computed_filters", None, Some(EmptyDict)),
       Attribute("_relations", None, Some(EmptyDict)),
       Attribute("_generic_relations", None, Some(EmptyDict)),
       Attribute("_custom_fields", None, Some(EmptyDict)),
       Attribute("_api_version", "api_version", Some(<<>>)),
       Attribute("_related_limit", None, Some(DEFAULT_RELATED_LIMIT)),
       Attribute("_permission_classes", "permission_classes", Some(<<>>)),
       Attribute("_authentication_classes", "authentication_classes", Some(<<>>)),
       Attribute("_before_create_callback", None, NoneValue),
       Attribute("_after_create_callback", None, NoneValue),
       Attribute("_create_decorator", None, Some(DEFAULT_VOID_DECORATOR)),
       Attribute("_after_get_callback", None, NoneValue),
       Attribute("_get_decorator", None, Some(DEFAULT_VOID_DECORATOR)),
       Attribute("_before_update_callback", None, NoneValue),
       Attribute("_after_update_callback", None, NoneValue),
       Attribute("_update_decorator", None, Some(DEFAULT_VOID_DECORATOR)),
       Attribute("_before_delete_callback", None, NoneValue),
       Attribute("_after_delete_callback", None, NoneValue),
       Attribute("_delete_decorator", None, Some(DEFAULT_VOID_DECORATOR)),
       Attribute("_before_list_callback", None, NoneValue),
       Attribute("_after_list_callback", None, NoneValue),
       Attribute("_list_decorator", None, Some(DEFAULT_VOID_DECORATOR)),
       Attribute("_before_raw_response", None, NoneValue),
       Attribute("_expose_related_views", "expose_related_views", NoneValue),
       Attribute("_is_admin", "is_admin", NoneValue),
       Attribute("_always_include", "always_include", NoneValue),
       Attribute("_spice_queryset", "permitted_objects", NoneValue),
       Attribute("_include_plugins", "include_plugins", Some(<<>>)),
       Attribute("_plugin_options", "plugin_options", Some(EmptyDict)),
       Attribute("_allowed_methods", "allowed_methods", Some(<<>>)),
       Attribute("_primary_key_name", "primary_key_name", Some("id")),
       Attribute("_resource_name", "resource_name", NoneValue),
       Attribute("_page_size", "page_size", NoneValue),
       Attribute("_dummy_includes", "dummy_includes", Some(<<>>)) >>

\* An object with no attribute yet
NewObject == [a \in {} |-> NoneValue]

\* What a method call did: returned (self, or None), or raised; the object
\* as the call left it; whether a warning was logged
ReturnSelf(self, warned) ==
    [raised |-> FALSE, exc |-> NoException, returns |-> "self", self |-> self, warned |-> warned]
Raise(self, exc) ==
    [raised |-> TRUE, exc |-> exc, returns |-> None, self |-> self, warned |-> FALSE]

\* The methods of limit_to_http_methods that are not in HTTP_ALL
InvalidMethods(limit_to_http_methods) ==
    SelectSeq(limit_to_http_methods, LAMBDA method : ~InList(method, HTTP_ALL))

\* _locals.get(settings.get("kwarg")), for the arguments kw of override
LocalsGet(kw, kwarg) == IF kwarg \in DOMAIN kw THEN kw[kwarg] ELSE NoneValue

\* One round of the loop over ATTRIBUTES: setattr from the argument, or from
\* the default where the object has no such attribute
SetAttribute(self, a, arg) ==
    IF ~arg.is_none THEN DictSet(self, a.attribute, arg)
    ELSE IF a.attribute \notin DOMAIN self THEN DictSet(self, a.attribute, a.default)
    ELSE self

RECURSIVE SetAttributes(_, _, _)
SetAttributes(self, kw, i) ==
    IF i > Len(ATTRIBUTES) THEN self
    ELSE SetAttributes(SetAttribute(self, ATTRIBUTES[i], LocalsGet(kw, ATTRIBUTES[i].kwarg)),
                       kw, i + 1)

\* self._api_version.replace('.', '').replace('-', ''), the version of the
\* URL, and the copy of the allowed methods
NormaliseVersion(self) ==
    [self EXCEPT !["_api_version"] = Some(replace(replace(self._api_version.value, "."), "-"))]
WithUrlVersion(self) ==
    DictSet(self, "_url_api_version", Some(<<"v">> \o self._api_version.value))

\* 'NoneType' object has no attribute 'objects', of self._model.objects
NoObjectsError == Exception("'NoneType' object has no attribute 'objects'", FALSE, 0)

\* if queryset is None: self._queryset = self._model.objects / else: ...
SetQueryset(self, queryset) ==
    IF ~queryset.is_none THEN ReturnSelf(DictSet(self, "_queryset", queryset), FALSE)
    ELSE IF self._model.is_none THEN Raise(self, NoObjectsError)
    ELSE ReturnSelf(DictSet(self, "_queryset", Some(Manager(self._model.value))), FALSE)

\* self._model.objects.model._meta.db_table.split('_')[-1]
TableResourceName(model) ==
    Str(split(model.db_table, "_")[Len(split(model.db_table, "_"))])

\* if self._resource_name is None: ..., and then the queryset
SetResourceName(self, queryset) ==
    IF ~self._resource_name.is_none THEN SetQueryset(self, queryset)
    ELSE IF self._model.is_none THEN Raise(self, NoObjectsError)
    ELSE SetQueryset([self EXCEPT !["_resource_name"] =
                          Some(TableResourceName(self._model.value))],
                     queryset)

\* override with the validation of the methods after the loop over the
\* attributes
override_ValidateLast(self, kw) ==
    IF ~kw.allowed_methods.is_none /\ InvalidMethods(kw.allowed_methods.value) /= <<>>
    THEN Raise(SetAttributes(self, kw, 1),
               Exception("Cannot limit fields to HTTP Method of types: "
                             \o ListRepr(InvalidMethods(kw.allowed_methods.value)),
                         FALSE, 0))
    ELSE SetResourceName(WithUrlVersion(NormaliseVersion(SetAttributes(self, kw, 1))),
                         kw.queryset)

\* builder.override(**kw): every argument of kw is None or a value
override(self, kw) ==
    IF ~kw.allowed_methods.is_none /\ InvalidMethods(kw.allowed_methods.value) /= <<>>
    THEN Raise(self, Exception("Cannot limit fields to HTTP Method of types: "
                                   \o ListRepr(InvalidMethods(kw.allowed_methods.value)),
                               FALSE, 0))
    ELSE SetResourceName(WithUrlVersion(NormaliseVersion(SetAttributes(self, kw, 1))),
                         kw.queryset)

\* The arguments of JsonApiModelViewBuilder(model) with every other
\* argument at its default
InitDefaults(model) ==
    [model |-> model,
     primary_key_name |-> NoneValue,
     resource_name |-> NoneValue,
     api_version |-> Some(<<>>),
     allowed_methods |-> Some(HTTP_ALL),
     permission_classes |-> NoneValue,
     authentication_classes |-> NoneValue,
     queryset |-> NoneValue,
     permitted_objects |-> NoneValue,
     include_plugins |-> NoneValue,
     plugin_options |-> NoneValue,
     expose_related_views |-> Some(FALSE),
     is_admin |-> Some(FALSE),
     always_include |-> Some(FALSE),
     page_size |-> Some(DEFAULT_PAGE_SIZE)]

\* self.settings = JsonApiGlobalSettings(), where override has returned
SetSettings(r) ==
    IF r.raised THEN r
    ELSE ReturnSelf(DictSet(r.self, "settings", Some("JsonApiGlobalSettings()")), FALSE)

\* JsonApiModelViewBuilder(**kw): __init__ on a new object
__init__(kw) == SetSettings(override(NewObject, kw))

\* self.__warn_if_method_not_available(method): a warning is logged
warn_if_method_not_available(self, method) == ~InList(method, self._allowed_methods.value)

\* if limit_to_on_retrieve not in d: d[limit_to_on_retrieve] = []
WithList(d, limit_to_on_retrieve) ==
    IF limit_to_on_retrieve \in DOMAIN d THEN d ELSE DictSet(d, limit_to_on_retrieve, <<>>)

\* d[limit_to_on_retrieve].extend(items), on the dict attribute named attribute
ExtendList(self, attribute, limit_to_on_retrieve, items) ==
    [self EXCEPT ![attribute] =
        Some(DictSet(WithList(self[attribute].value, limit_to_on_retrieve),
                     limit_to_on_retrieve,
                     WithList(self[attribute].value, limit_to_on_retrieve)[limit_to_on_retrieve]
                         \o items))]

\* A slip of the code's kind: the list is assigned, not extended.
fields_Assign(self, fields_, limit_to_on_retrieve) ==
    ReturnSelf([self EXCEPT !["_fields"] =
                   Some(DictSet(self._fields.value, limit_to_on_retrieve, fields_))], FALSE)

\* builder.fields(fields, limit_to_on_retrieve)
fields(self, fields_, limit_to_on_retrieve) ==
    ReturnSelf(ExtendList(self, "_fields", limit_to_on_retrieve, fields_), FALSE)

\* builder.add_field(name, limit_to_on_retrieve)
add_field(self, name, limit_to_on_retrieve) ==
    ReturnSelf(ExtendList(self, "_fields", limit_to_on_retrieve, <<name>>), FALSE)

\* types.CustomField and types.Relation
CustomField(name, callback) == [name |-> name, callback |-> callback]
Relation(field, resource_name, many, primary_key_name, required, api_version) ==
    [field |-> field, resource_name |-> resource_name, many |-> many,
     primary_key_name |-> primary_key_name, required |-> required, api_version |-> api_version]

\* builder.add_custom_field(name, instance_callback, limit_to_on_retrieve)
add_custom_field(self, name, instance_callback, limit_to_on_retrieve) ==
    ReturnSelf(ExtendList(self, "_custom_fields", limit_to_on_retrieve,
                          <<CustomField(name, instance_callback)>>), FALSE)

\* builder.custom_fields(fields, limit_to_on_retrieve), fields a list of
\* (name, instance_callback) pairs
custom_fields(self, fields_, limit_to_on_retrieve) ==
    ReturnSelf(ExtendList(self, "_custom_fields", limit_to_on_retrieve,
                          [i \in 1..Len(fields_) |-> CustomField(fields_[i][1], fields_[i][2])]),
               FALSE)

\* builder.add_relation(field, many, resource_name, primary_key_name,
\* limit_to_on_retrieve, required, api_version)
add_relation(self, field, many, resource_name, primary_key_name, limit_to_on_retrieve, required, api_version) ==
    ReturnSelf(ExtendList(self, "_relations", limit_to_on_retrieve,
                          <<Relation(field,
                                     IF resource_name.is_none THEN field ELSE resource_name.value,
                                     many, primary_key_name, required,
                                     replace(replace(api_version, "."), "-"))>>),
               FALSE)

\* builder.before_delete(before_delete_callback)
before_delete(self, before_delete_callback) ==
    ReturnSelf([self EXCEPT !["_before_delete_callback"] = before_delete_callback],
               warn_if_method_not_available(self, HTTP_DELETE))

\* builder.after_delete(after_delete_callback)
after_delete(self, after_delete_callback) ==
    ReturnSelf([self EXCEPT !["_after_delete_callback"] = after_delete_callback],
               warn_if_method_not_available(self, HTTP_DELETE))

\* Bound: the most configuration calls made on one builder
MaxCalls == 3

\* The constructor calls of the model: no model; a model alone; a model with
\* a resource name, a version, a queryset and fewer methods; no model but a
\* resource name, without and with a queryset; a method outside HTTP_ALL
ConstructorKwargs ==
    { InitDefaults(NoneValue),
      InitDefaults(Some(Article)),
      [InitDefaults(Some(Article)) EXCEPT !.resource_name = Some("articles"),
                                          !.api_version = Some(<<"1", ".", "0">>),
                                          !.queryset = Some("Article.published"),
                                          !.allowed_methods = Some(<<HTTP_GET, HTTP_POST>>)],
      [InitDefaults(NoneValue) EXCEPT !.resource_name = Some("articles")],
      [InitDefaults(NoneValue) EXCEPT !.resource_name = Some("articles"),
                                      !.queryset = Some("Article.published")],
      [InitDefaults(Some(Article)) EXCEPT !.allowed_methods = Some(<<HTTP_GET, "PUT">>)] }

\* The callbacks given to the lifecycle setters: a callable that returns, or
\* one that raises
Callbacks == {Some(Callable(FALSE, NoResponse)), Some(Callable(TRUE, NoResponse))}

\* What the caller of a method sees of its outcome
Outcome(r) == [raised |-> r.raised, exc |-> r.exc, returns |-> r.returns, warned |-> r.warned]
NoOutcome == [raised |-> FALSE, exc |-> NoException, returns |-> None, warned |-> FALSE]

\* A logged call: the method, its limit_to_on_retrieve flag, its arguments
Call(method, limit_to_on_retrieve, args) ==
    [method |-> method, limit_to_on_retrieve |-> limit_to_on_retrieve, args |-> args]

\* No builder is under way.
IdleBuilder ==
    /\ builder = NewObject
    /\ builder_pc = "idle"
    /\ builder_kwargs = InitDefaults(NoneValue)
    /\ builder_calls = <<>>
    /\ builder_result = NoOutcome

\* The application is about to construct a builder.
InitBuilder ==
    /\ builder = NewObject
    /\ builder_pc = "new"
    /\ builder_kwargs = InitDefaults(NoneValue)
    /\ builder_calls = <<>>
    /\ builder_result = NoOutcome

\* builder = JsonApiModelViewBuilder(**kw)
Construct(kw) ==
    /\ builder_pc = "new"
    /\ builder_kwargs' = kw
    /\ builder_result' = Outcome(__init__(kw))
    /\ builder_pc' = IF __init__(kw).raised THEN "raised" ELSE "built"
    /\ builder' = IF __init__(kw).raised THEN NewObject ELSE __init__(kw).self
    /\ UNCHANGED <<builder_calls, notBuilderVars>>

\* A configuration call on the constructed builder, with outcome r
Configure(call, r) ==
    /\ builder' = r.self
    /\ builder_result' = Outcome(r)
    /\ builder_calls' = Append(builder_calls, call)
    /\ UNCHANGED <<builder_pc, builder_kwargs, notBuilderVars>>

CanConfigure == builder_pc = "built" /\ Len(builder_calls) < MaxCalls

Fields(fields_, limit_to_on_retrieve) ==
    /\ CanConfigure
    /\ Configure(Call("fields", limit_to_on_retrieve, <<fields_>>),
                 fields(builder, fields_, limit_to_on_retrieve))

AddField(name, limit_to_on_retrieve) ==
    /\ CanConfigure
    /\ Configure(Call("add_field", limit_to_on_retrieve, <<name>>),
                 add_field(builder, name, limit_to_on_retrieve))

AddCustomField(name, instance_callback, limit_to_on_retrieve) ==
    /\ CanConfigure
    /\ Configure(Call("add_custom_field", limit_to_on_retrieve, <<name, instance_callback>>),
                 add_custom_field(builder, name, instance_callback, limit_to_on_retrieve))

CustomFields(fields_, limit_to_on_retrieve) ==
    /\ CanConfigure
    /\ Configure(Call("custom_fields", limit_to_on_retrieve, <<fields_>>),
                 custom_fields(builder, fields_, limit_to_on_retrieve))

AddRelation(field, many, limit_to_on_retrieve) ==
    /\ CanConfigure
    /\ Configure(Call("add_relation", limit_to_on_retrieve, <<field, many>>),
                 add_relation(builder, field, many, NoneValue, NoneValue,
                              limit_to_on_retrieve, FALSE, <<>>))

BeforeDelete(callback) ==
    /\ CanConfigure
    /\ Configure(Call("before_delete", FALSE, <<callback>>), before_delete(builder, callback))

AfterDelete(callback) ==
    /\ CanConfigure
    /\ Configure(Call("after_delete", FALSE, <<callback>>), after_delete(builder, callback))

NextBuilder ==
    \/ \E kw \in ConstructorKwargs : Construct(kw)
    \/ \E flag \in BOOLEAN : Fields(<<"title", "body">>, flag)
    \/ \E flag \in BOOLEAN : AddField("slug", flag)
    \/ \E flag \in BOOLEAN : AddCustomField("score", "score_of", flag)
    \/ CustomFields(<<<<"rank", "rank_of">>, <<"votes", "votes_of">>>>, FALSE)
    \/ \E flag \in BOOLEAN : AddRelation("author", FALSE, flag)
    \/ AddRelation("tags", TRUE, FALSE)
    \/ BeforeDelete(Some(Callable(FALSE, NoResponse)))
    \/ AfterDelete(Some(Callable(FALSE, NoResponse)))

-----------------------------------------------------------------------------
(* perform_destroy of the model view set (factory.py, _build) *)

\* The rows of the model's table when the application starts
Instances == {"article-1", "article-2"}

\* What instance.delete() raises when it raises
DeleteError == Exception("Cannot delete some instances of model 'Article'", FALSE, 0)

\* One step of perform_destroy: the callback invoked or the deletion, whether
\* the instance's row was in the table when the step began, and whether the
\* step raised
Event(name, in_db, raised) == [name |-> name, in_db |-> in_db, raised |-> raised]

\* What one call of perform_destroy did: its steps in order, the table as it
\* left it, and what the function body did (returned None, or raised)
DestroyOutcome(events, table, raises, exc) ==
    [events |-> events, table |-> table,
     body |-> [raises |-> raises, returns |-> NoResponse, exc |-> exc]]

\* if self._after_delete_callback is not None:
\*     self._after_delete_callback(instance, view.get_serializer())
after_delete_step(self, events, table, instance) ==
    IF self._after_delete_callback.is_none
    THEN DestroyOutcome(events, table, FALSE, NoException)
    ELSE DestroyOutcome(
             Append(events, Event("after_delete", instance \in table,
                                  self._after_delete_callback.value.raises)),
             table,
             self._after_delete_callback.value.raises,
             IF self._after_delete_callback.value.raises THEN CallbackError ELSE NoException)

\* instance.delete(), then the rest of the body: the row is removed, or the
\* deletion raises and the row stays
delete_step(self, events, table, instance, delete_raises) ==
    IF delete_raises
    THEN DestroyOutcome(Append(events, Event("delete", instance \in table, TRUE)),
                        table, TRUE, DeleteError)
    ELSE after_delete_step(self, Append(events, Event("delete", instance \in table, FALSE)),
                           table \ {instance}, instance)

\* A slip of the code's kind: the after_delete callback is invoked whether
\* or not the deletion completed (as from a finally clause).
perform_destroy_AfterAlways(self, table, instance, delete_raises) ==
    LET events == IF self._before_delete_callback.is_none THEN <<>>
                  ELSE <<Event("before_delete", instance \in table,
                               self._before_delete_callback.value.raises)>>
    IN  IF events /= <<>> /\ events[1].raised
        THEN DestroyOutcome(events, table, TRUE, CallbackError)
        ELSE after_delete_step(
                 self,
                 Append(events, Event("delete", instance \in table, delete_raises)),
                 IF delete_raises THEN table ELSE table \ {instance},
                 instance)

\* The body of perform_destroy(view, instance) under the default delete
\* decorator, for a table of rows and a deletion that raises or not
perform_destroy(self, table, instance, delete_raises) ==
    IF self._before_delete_callback.is_none
    THEN delete_step(self, <<>>, table, instance, delete_raises)
    ELSE IF self._before_delete_callback.value.raises
    THEN DestroyOutcome(<<Event("before_delete", instance \in table, TRUE)>>,
                        table, TRUE, CallbackError)
    ELSE delete_step(self, <<Event("before_delete", instance \in table, FALSE)>>,
                     table, instance, delete_raises)

\* self._before_delete_callback and self._after_delete_callback as a call
\* of perform_destroy reads them
DeleteCallbacks(self) ==
    [before_delete |-> self._before_delete_callback,
     after_delete |-> self._after_delete_callback]
NoCallbacks == [before_delete |-> NoneValue, after_delete |-> NoneValue]

\* No table is served.
IdleDestroy ==
    /\ db = {}
    /\ destroy_instance = None
    /\ destroy_callbacks = NoCallbacks
    /\ destroy_events = <<>>
    /\ destroy_result = Returned(NoResponse, <<>>)

\* The table holds its rows and no DELETE request was served.
InitDestroy ==
    /\ db = Instances
    /\ destroy_instance = None
    /\ destroy_callbacks = NoCallbacks
    /\ destroy_events = <<>>
    /\ destroy_result = Returned(NoResponse, <<>>)

\* A DELETE request for a row of the table is served by
\* exception_handler(perform_destroy) of the built view set
PerformDestroy(instance, delete_raises) ==
    /\ builder_pc = "built"
    /\ instance \in db
    /\ destroy_instance' = instance
    /\ destroy_callbacks' = DeleteCallbacks(builder)
    /\ db' = perform_destroy(builder, db, instance, delete_raises).table
    /\ destroy_events' = perform_destroy(builder, db, instance, delete_raises).events
    /\ destroy_result' =
           exception_handler(settings, perform_destroy(builder, db, instance, delete_raises).body)
    /\ UNCHANGED notDestroyVars

NextDestroy ==
    \/ \E kw \in ConstructorKwargs : Construct(kw)
    \/ \E callback \in Callbacks \cup {NoneValue} : BeforeDelete(callback)
    \/ \E callback \in Callbacks \cup {NoneValue} : AfterDelete(callback)
    \/ \E instance \in Instances, delete_raises \in BOOLEAN :
           PerformDestroy(instance, delete_raises)

-----------------------------------------------------------------------------
(* perform_list of the model view set (factory.py, _build) *)

\* Bound: the rows a page of the paginator holds
PageLength == 2

\* view.get_queryset(): the rows of the model's table, in order
Rows == <<"a1", "a2", "a3">>

\* A lifecycle setter: the argument is stored in the attribute, and a
\* warning is logged where method is not among the allowed methods
LifecycleSetter(self, attribute, value, method) ==
    ReturnSelf([self EXCEPT ![attribute] = value], warn_if_method_not_available(self, method))

\* builder.before_list(before_list_callback), builder.after_list(after_list_callback)
before_list(self, before_list_callback) ==
    LifecycleSetter(self, "_before_list_callback", before_list_callback, HTTP_GET)
after_list(self, after_list_callback) ==
    LifecycleSetter(self, "_after_list_callback", after_list_callback, HTTP_GET)

\* A before_list callback: raises, or returns the queryset it was given
\* reversed, or only its first row.  An after_list callback: raises, or
\* returns the data it was given marked as edited, or data with no result.
ListCallback(raises, does) == [state |-> "callable", raises |-> raises, does |-> does]
BeforeListCallbacks ==
    {NoneValue, Some(ListCallback(TRUE, "raise")),
     Some(ListCallback(FALSE, "reversed")), Some(ListCallback(FALSE, "first"))}
AfterListCallbacks ==
    {NoneValue, Some(ListCallback(TRUE, "raise")),
     Some(ListCallback(FALSE, "edited")), Some(ListCallback(FALSE, "emptied"))}

\* reversed(queryset)
Reversed(queryset) == [i \in 1..Len(queryset) |-> queryset[Len(queryset) + 1 - i]]

\* self._before_list_callback(request, queryset), where it returns
CallBeforeList(callback, queryset) ==
    IF callback.does = "reversed" THEN Reversed(queryset)
    ELSE SubSeq(queryset, 1, IF Len(queryset) > 0 THEN 1 ELSE 0)

\* response.data: the serialized rows, inside the paginator's envelope or
\* bare, and who edited it last
ResponseData(results, paginated, edited_by) ==
    [results |-> results, paginated |-> paginated, edited_by |-> edited_by]

\* self._after_list_callback(view.request, response.data), where it returns
CallAfterList(callback, data) ==
    IF callback.does = "edited" THEN [data EXCEPT !.edited_by = "after_list"]
    ELSE ResponseData(<<>>, FALSE, "after_list")

\* view.filter_queryset(queryset): the filter backends drop the rows the
\* request's filters exclude
filter_queryset(queryset, excluded) == SelectSeq(queryset, LAMBDA row : row \notin excluded)

\* view.paginate_queryset(queryset): a page of the queryset, or None where
\* the view does not paginate
paginate_queryset(queryset, paginated) ==
    IF paginated
    THEN Some(SubSeq(queryset, 1, IF Len(queryset) < PageLength THEN Len(queryset) ELSE PageLength))
    ELSE NoneValue

\* serializer.data of view.get_serializer(rows, many=True)
SerializerData(rows) == [i \in 1..Len(rows) |-> [id |-> rows[i]]]

\* One step of perform_list and what it was given (rows, or the rows of the
\* serialized results)
Step(name, given) == [name |-> name, given |-> given]

\* What one call of perform_list did: its steps in order and what the
\* function body did (returned the response, or raised)
PerformListOutcome(steps, raises, returns, exc) ==
    [steps |-> steps, body |-> [raises |-> raises, returns |-> returns, exc |-> exc]]

\* if self._after_list_callback is not None: response.data = ...; return response
after_list_step(self, steps, data) ==
    IF self._after_list_callback.is_none
    THEN PerformListOutcome(steps, FALSE, Response(data, 200), NoException)
    ELSE IF self._after_list_callback.value.raises
    THEN PerformListOutcome(Append(steps, Step("after_list", data.results)),
                            TRUE, NoResponse, CallbackError)
    ELSE PerformListOutcome(Append(steps, Step("after_list", data.results)), FALSE,
                            Response(CallAfterList(self._after_list_callback.value, data), 200),
                            NoException)

\* serializer = view.get_serializer(page if page is not None else queryset,
\* many=True), and the response of serializer.data
serialize_step(self, steps, queryset, page) ==
    after_list_step(self,
                    Append(steps, Step("serialize", IF page.is_none THEN queryset ELSE page.value)),
                    ResponseData(SerializerData(IF page.is_none THEN queryset ELSE page.value),
                                 ~page.is_none, "serializer"))

\* page = view.paginate_queryset(queryset)
paginate_step(self, steps, queryset, paginated) ==
    serialize_step(self, Append(steps, Step("paginate_queryset", queryset)),
                   queryset, paginate_queryset(queryset, paginated))

\* if self._before_list_callback is not None: queryset = ...
before_list_step(self, steps, queryset, paginated) ==
    IF self._before_list_callback.is_none
    THEN paginate_step(self, steps, queryset, paginated)
    ELSE IF self._before_list_callback.value.raises
    THEN PerformListOutcome(Append(steps, Step("before_list", queryset)),
                            TRUE, NoResponse, CallbackError)
    ELSE paginate_step(self, Append(steps, Step("before_list", queryset)),
                       CallBeforeList(self._before_list_callback.value, queryset), paginated)

\* A slip of the code's kind: the queryset is paginated first and the
\* before_list callback is given the page.
perform_list_PaginateFirst(self, excluded, paginated) ==
    before_list_step(
        self,
        <<Step("filter_queryset", Rows),
          Step("paginate_queryset", filter_queryset(Rows, excluded))>>,
        IF paginated THEN paginate_queryset(filter_queryset(Rows, excluded), TRUE).value
        ELSE filter_queryset(Rows, excluded),
        FALSE)

\* The body of perform_list(view, request) under the default list decorator,
\* for a request whose filters exclude the rows excluded
perform_list(self, excluded, paginated) ==
    before_list_step(self, <<Step("filter_queryset", Rows)>>,
                     filter_queryset(Rows, excluded), paginated)

\* The list callbacks as a call of perform_list reads them
ListCallbacks(self) ==
    [before_list |-> self._before_list_callback, after_list |-> self._after_list_callback]

\* A GET request of the collection: the rows its filters exclude, and
\* whether the view paginates
ListRequest(served, excluded, paginated) ==
    [served |-> served, excluded |-> excluded, paginated |-> paginated]

\* No collection is served.
IdlePerformList ==
    /\ pl_request = ListRequest(FALSE, {}, FALSE)
    /\ pl_callbacks = [before_list |-> NoneValue, after_list |-> NoneValue]
    /\ pl_steps = <<>>
    /\ pl_result = [body |-> NoFunc, result |-> Returned(NoResponse, <<>>)]

InitPerformList == IdlePerformList

BeforeList(callback) ==
    /\ CanConfigure
    /\ Configure(Call("before_list", FALSE, <<callback>>), before_list(builder, callback))

AfterList(callback) ==
    /\ CanConfigure
    /\ Configure(Call("after_list", FALSE, <<callback>>), after_list(builder, callback))

\* A GET request of the collection is served by exception_handler(perform_list)
\* of the built view set
PerformList(excluded, paginated) ==
    /\ builder_pc = "built"
    /\ pl_request' = ListRequest(TRUE, excluded, paginated)
    /\ pl_callbacks' = ListCallbacks(builder)
    /\ pl_steps' = perform_list(builder, excluded, paginated).steps
    /\ pl_result' =
           [body |-> perform_list(builder, excluded, paginated).body,
            result |-> exception_handler(settings,
                                         perform_list(builder, excluded, paginated).body)]
    /\ UNCHANGED notPerformListVars

NextPerformList ==
    \/ \E kw \in ConstructorKwargs : Construct(kw)
    \/ \E callback \in BeforeListCallbacks : BeforeList(callback)
    \/ \E callback \in AfterListCallbacks : AfterList(callback)
    \/ \E excluded \in {{}, {"a2"}, {"a1", "a2", "a3"}}, paginated \in BOOLEAN :
           PerformList(excluded, paginated)

-----------------------------------------------------------------------------
(* The lifecycle setters of JsonApiModelViewBuilder (factory.py) *)

\* A lifecycle setter: its name, the attribute it assigns, the operation it
\* belongs to, and the method it passes to __warn_if_method_not_available
Setter(name, attribute, operation, method) ==
    [name |-> name, attribute |-> attribute, operation |-> operation, method |-> method]

LIFECYCLE_SETTERS ==
    << Setter("before_create", "_before_create_callback", "create", HTTP_POST),
       Setter("after_create", "_after_create_callback", "create", HTTP_POST),
       Setter("set_create_decorator", "_create_decorator", "create", HTTP_GET),
       Setter("after_get", "_after_get_callback", "get", HTTP_GET),
       Setter("set_get_decorator", "_get_decorator", "get", HTTP_GET),
       Setter("before_update", "_before_update_callback", "update", HTTP_PATCH),
       Setter("after_update", "_after_update_callback", "update", HTTP_PATCH),
       Setter("set_update_decorator", "_update_decorator", "update", HTTP_GET),
       Setter("before_delete", "_before_delete_callback", "delete", HTTP_DELETE),
       Setter("after_delete", "_after_delete_callback", "delete", HTTP_DELETE),
       Setter("set_delete_decorator", "_delete_decorator", "delete", HTTP_GET),
       Setter("before_list", "_before_list_callback", "list", HTTP_GET),
       Setter("after_list", "_after_list_callback", "list", HTTP_GET),
       Setter("set_list_decorator", "_list_decorator", "list", HTTP_GET) >>

\* builder.<setter.name>(value)
lifecycle_setter(self, setter, value) ==
    LifecycleSetter(self, setter.attribute, value, setter.method)

\* The argument the application gives a setter: a callback, or a decorator
SetterArgument(setter) ==
    IF setter.attribute \in {"_create_decorator", "_get_decorator", "_update_decorator",
                             "_delete_decorator", "_list_decorator"}
    THEN Some("login_required")
    ELSE Some(Callable(FALSE, NoResponse))

SetLifecycle(setter, value) ==
    /\ CanConfigure
    /\ Configure(Call(setter.name, FALSE, <<value>>), lifecycle_setter(builder, setter, value))

NextSetters ==
    \/ \E kw \in ConstructorKwargs : Construct(kw)
    \/ \E setter \in Range(LIFECYCLE_SETTERS) : SetLifecycle(setter, SetterArgument(setter))

-----------------------------------------------------------------------------
(* constructors.py: LiarList and the to_representation of a to-many
   relationship, which _construct_serializer defines over its related_limit *)

\* Bounds: the related objects of an instance, and the related limits tried
MaxRelated == 3
MaxLimit == 4

\* No call of a module-level function was made
IdleCall ==
    /\ call_name = "none"
    /\ call_args = <<>>
    /\ call_result = <<>>

\* A related object with a primary key
Related(pk) == [pk |-> pk]

\* What the relationship holds: a Django QuerySet, or another iterable (the
\* list a prefetch or a filter_relationship leaves), over some rows
QuerySet(rows) == [class |-> "QuerySet", rows |-> rows]
RelatedList(rows) == [class |-> "list", rows |-> rows]

\* QuerySet.count()
queryset_count(iterable) == Len(iterable.rows)

\* iterable[:stop] for a stop that is not negative
SliceTo(iterable, stop) ==
    SubSeq(iterable.rows, 1, IF stop < Len(iterable.rows) THEN stop ELSE Len(iterable.rows))

\* self.child_relation.to_representation(value): the resource identifier of
\* one related object
child_to_representation(value) == [type |-> "comments", id |-> ToString(value.pk)]

\* LiarList: the items of the list, and the count its real_count setter took
LiarList(data, real_count) == [items |-> data, _real_count |-> real_count]

\* LiarList.__len__
LiarLen(liar) == liar._real_count

\* Iterating a LiarList: list.__iter__, which LiarList does not override
LiarIter(liar) == liar.items

\* The real count to_representation takes
real_count_of(iterable) ==
    IF iterable.class = "QuerySet" THEN queryset_count(iterable) ELSE Len(iterable.rows)

\* The data to_representation builds
data_of(iterable, related_limit) ==
    [i \in 1..Len(SliceTo(iterable, related_limit)) |->
        child_to_representation(SliceTo(iterable, related_limit)[i])]

\* to_representation with the count of the data it built as the real count
to_representation_CountData(iterable, related_limit) ==
    LiarList(data_of(iterable, related_limit), Len(data_of(iterable, related_limit)))

\* _construct_serializer.to_representation
to_representation(iterable, related_limit) ==
    LiarList(data_of(iterable, related_limit), real_count_of(iterable))

\* The related objects an instance may have, in every order
RelatedRows == SeqUpTo({Related(pk) : pk \in 1..MaxRelated}, MaxRelated)
Iterables == {QuerySet(rows) : rows \in RelatedRows} \cup {RelatedList(rows) : rows \in RelatedRows}
RelatedLimits == 0..MaxLimit

\* The LiarList of a relationship nobody has represented yet
NoLiarList == LiarList(<<>>, 0)

\* The serializer of an instance with some related objects, built with some
\* related limit, has not represented the relationship yet
InitLiar ==
    \E iterable \in Iterables, related_limit \in RelatedLimits :
        /\ call_name = "none"
        /\ call_args = [iterable |-> iterable, related_limit |-> related_limit]
        /\ call_result = NoLiarList

\* The relationship is represented
ToRepresentation ==
    /\ call_name = "none"
    /\ call_name' = "to_representation"
    /\ call_result' = to_representation(call_args.iterable, call_args.related_limit)
    /\ UNCHANGED <<call_args, notCallVars>>

NextLiar == ToRepresentation

-----------------------------------------------------------------------------
(* factory.py: json_api_view and the routes of the JsonApiResourceViewBuilder
   it returns *)

\* sub in s, for two strings
Contains(s, sub) ==
    \E i \in 0..(Len(s) - Len(sub)) : SubSeq(s, i + 1, i + Len(sub)) = sub

\* s.rstrip(c)
RECURSIVE rstrip(_, _)
rstrip(s, c) ==
    IF s /= <<>> /\ s[Len(s)] = c THEN rstrip(SubSeq(s, 1, Len(s) - 1), c) ELSE s

\* The version part of _build: the URL version is appended to a prefix that
\* does not hold it, or becomes the prefix where there is none
with_url_api_version(urls_prefix, url_api_version) ==
    IF Len(urls_prefix) > 0 THEN
        IF Len(url_api_version) > 1 /\ ~Contains(urls_prefix, url_api_version)
        THEN rstrip(urls_prefix, "/") \o <<"/">> \o url_api_version
        ELSE urls_prefix
    ELSE IF Len(url_api_version) > 1 THEN url_api_version
    ELSE urls_prefix

\* if len(urls_prefix) > 0 and urls_prefix[-1] != '/': urls_prefix += '/'
with_slash(urls_prefix) ==
    IF Len(urls_prefix) > 0 /\ urls_prefix[Len(urls_prefix)] /= "/"
    THEN urls_prefix \o <<"/">> ELSE urls_prefix

\* urls_prefix as _build leaves it before it formats the routes
final_prefix(urls_prefix, url_api_version) ==
    with_slash(with_url_api_version(urls_prefix, url_api_version))

\* if urls_prefix is None: urls_prefix = 'admin/' if self._is_admin else ''
default_prefix(urls_prefix, is_admin) ==
    IF ~urls_prefix.is_none THEN urls_prefix.value
    ELSE IF is_admin THEN <<"a", "d", "m", "i", "n", "/">> ELSE <<>>

\* JsonApiResourceViewBuilder(action_name=resource_name, api_version=...,
\* allowed_methods=[method], only_callbacks=True, is_admin=...): the
\* attributes the routes depend on
ResourceViewBuilder(action_name, api_version, allowed_methods, is_admin, only_callbacks) ==
    [_allowed_methods |-> allowed_methods,
     _resource_name |-> action_name,
     _api_version |-> replace(replace(api_version, "."), "-"),
     _url_api_version |-> <<"v">> \o api_version,
     _unique_identifier |-> "id",
     _on_create_callback |-> NoneValue,
     _on_update_callback |-> NoneValue,
     _on_delete_callback |-> NoneValue,
     _on_list_callback |-> NoneValue,
     _on_get_callback |-> NoneValue,
     _is_admin |-> is_admin,
     _only_callbacks |-> only_callbacks]

\* The builder on which nothing was called
NoResourceViewBuilder == ResourceViewBuilder(None, <<>>, <<>>, FALSE, FALSE)

\* builder.on_list(func), on_get, on_create, on_delete, on_update
on_callback(self, attribute, callback) == [self EXCEPT ![attribute] = Some(callback)]

\* json_api_view with GET always registered as the list callback
CallbackOf_GetIsList(method, multiple_resource) ==
    IF method = HTTP_GET THEN "_on_list_callback"
    ELSE IF method = HTTP_POST THEN "_on_create_callback"
    ELSE IF method = HTTP_DELETE THEN "_on_delete_callback"
    ELSE IF method = HTTP_PATCH THEN "_on_update_callback"
    ELSE None

\* The callback attribute json_api_view sets for a method: None where it
\* supports none
CallbackOf(method, multiple_resource) ==
    IF method = HTTP_GET /\ multiple_resource THEN "_on_list_callback"
    ELSE IF method = HTTP_GET THEN "_on_get_callback"
    ELSE IF method = HTTP_POST THEN "_on_create_callback"
    ELSE IF method = HTTP_DELETE THEN "_on_delete_callback"
    ELSE IF method = HTTP_PATCH THEN "_on_update_callback"
    ELSE None

\* What json_api_view(...)(func) gives: the builder, or an exception
ViewResult(raised, message, view_builder, urls) ==
    [raised |-> raised, message |-> message, builder |-> view_builder, urls |-> urls]

\* json_api_view(resource_name, api_version, method, multiple_resource=...,
\* is_admin=...)(func)
json_api_view(a, view_func) ==
    IF CallbackOf(a.method, a.multiple_resource) = None
    THEN ViewResult(TRUE, "Does not support method " \o a.method, NoResourceViewBuilder, <<>>)
    ELSE ViewResult(FALSE, None,
                    on_callback(ResourceViewBuilder(a.resource_name, a.api_version,
                                                    <<a.method>>, a.is_admin, TRUE),
                                CallbackOf(a.method, a.multiple_resource), view_func),
                    <<>>)

\* any([...]) over callback attributes of the builder
AnyCallback(self, attributes) == \E attribute \in attributes : ~self[attribute].is_none

\* get_view_set and patch_view_set are built
HasGetViewSet(self) ==
    AnyCallback(self, {"_on_list_callback", "_on_create_callback"}) \/ ~self._only_callbacks
HasPatchViewSet(self) ==
    \/ AnyCallback(self, {"_on_update_callback", "_on_delete_callback", "_on_get_callback"})
    \/ ~self._only_callbacks

\* view_dict of the detail route: 'get' maps to the view's get
DetailViewDict(allowed_methods) ==
    IF "get" \in DOMAIN get_dict_by_methods("get", allowed_methods)
    THEN DictSet(get_dict_by_methods("get", allowed_methods), "get", "get")
    ELSE get_dict_by_methods("get", allowed_methods)

\* A route: the text of its regex between ^ and $, whether the regex ends
\* with the group of the identifier, the actions of its view, its name
Url(regex, identifier, actions, name) ==
    [regex |-> regex, identifier |-> identifier, actions |-> actions, name |-> name]

\* The routes of the collection and of one resource
ListUrl(self, urls_prefix) ==
    Url(Str(urls_prefix) \o self._resource_name, None,
        get_dict_by_methods("list", self._allowed_methods),
        "list-" \o (IF self._is_admin THEN "admin_view_" ELSE "") \o self._resource_name
            \o Str(self._api_version))
DetailUrl(self, urls_prefix) ==
    Url(Str(urls_prefix) \o self._resource_name, self._unique_identifier,
        DetailViewDict(self._allowed_methods),
        (IF self._is_admin THEN "admin_view_" ELSE "") \o self._resource_name
            \o Str(self._api_version) \o "-detail")

\* JsonApiResourceViewBuilder._build, for the prefix it was given or took
BuildUrls(self, urls_prefix) ==
    (IF HasGetViewSet(self) THEN <<ListUrl(self, urls_prefix)>> ELSE <<>>)
        \o (IF HasPatchViewSet(self) THEN <<DetailUrl(self, urls_prefix)>> ELSE <<>>)

\* builder.get_urls(urls_prefix=...)
resource_get_urls(self, urls_prefix) ==
    BuildUrls(self, final_prefix(default_prefix(urls_prefix, self._is_admin),
                                 self._url_api_version))

\* The arguments of json_api_view in the model
ViewMethods == {HTTP_GET, HTTP_POST, HTTP_DELETE, HTTP_PATCH, "PUT", "get"}
ViewVersions == {<<>>, <<"2">>, <<"1", ".", "0">>}
ViewArgs ==
    [resource_name : {"login"}, api_version : ViewVersions, method : ViewMethods,
     multiple_resource : BOOLEAN, is_admin : BOOLEAN]

\* The prefixes given to get_urls: none, and one with its slash
ViewPrefixes == {NoneValue, Some(<<"a", "p", "i", "/">>)}

\* The decorator of json_api_view is about to be applied to a view function
InitView ==
    /\ call_name = "none"
    /\ call_args \in ViewArgs
    /\ call_result = ViewResult(FALSE, None, NoResourceViewBuilder, <<>>)

\* view = json_api_view(...)(func)
JsonApiView ==
    /\ call_name = "none"
    /\ call_name' = "json_api_view"
    /\ call_result' = json_api_view(call_args, "func")
    /\ UNCHANGED <<call_args, notCallVars>>

\* urls = view.get_urls(urls_prefix=...)
ResourceGetUrls(urls_prefix) ==
    /\ call_name = "json_api_view"
    /\ ~call_result.raised
    /\ call_name' = "get_urls"
    /\ call_result' = [call_result EXCEPT
                          !.urls = resource_get_urls(call_result.builder, urls_prefix)]
    /\ UNCHANGED <<call_args, notCallVars>>

NextView ==
    \/ JsonApiView
    \/ \E urls_prefix \in ViewPrefixes : ResourceGetUrls(urls_prefix)

-----------------------------------------------------------------------------
(* factory.py: JsonApiModelViewBuilder.get_urls and _build: the serializers
   and the routes *)

\* types.GenericRelation, and types.RelatedResource with its version
RelatedResource(resource_name, api_version) ==
    [resource_name |-> resource_name, api_version |-> api_version]
GenericRelation(field, related, many, required) ==
    [field |-> field, related |-> related, many |-> many, required |-> required]

\* builder.add_generic_relation(field, related, many, limit_to_on_retrieve, required)
add_generic_relation(self, field, related, many, limit_to_on_retrieve, required) ==
    ReturnSelf(ExtendList(self, "_generic_relations", limit_to_on_retrieve,
                          <<GenericRelation(field,
                                            [i \in 1..Len(related) |->
                                                RelatedResource(related[i].resource_name,
                                                                replace(replace(related[i].api_version, "."), "-"))],
                                            many, required)>>),
               FALSE)

\* self._fields[flag] if flag in self._fields else [], for any of the dicts
ListOf(self, attribute, flag) ==
    IF flag \in DOMAIN self[attribute].value THEN self[attribute].value[flag] ELSE <<>>

\* The list given for the Retrieve serializer, were it not extended
SerializerList_NoExtend(self, attribute, flag) == ListOf(self, attribute, flag)

\* The list _build gives _construct_serializer for a flag: for True, the
\* list of True extended by the list of False
SerializerList(self, attribute, flag) ==
    IF flag THEN ListOf(self, attribute, TRUE) \o ListOf(self, attribute, FALSE)
    ELSE ListOf(self, attribute, FALSE)

\* fields.extend(...) where fields is the list self._fields[True] itself:
\* the builder's own list grows
ExtendRetrieveList(self, attribute) ==
    IF TRUE \in DOMAIN self[attribute].value
    THEN [self EXCEPT ![attribute] =
             Some(DictSet(self[attribute].value, TRUE,
                          ListOf(self, attribute, TRUE) \o ListOf(self, attribute, FALSE)))]
    ELSE self

\* The builder after the loop over [False, True]
AfterSerializers(self) ==
    ExtendRetrieveList(ExtendRetrieveList(ExtendRetrieveList(ExtendRetrieveList(
        self, "_fields"), "_custom_fields"), "_relations"), "_generic_relations")

\* A truth test of an attribute that may be None
IsTrue(attribute) == ~attribute.is_none /\ attribute.value

\* serializer_name of _construct_serializer
SerializerName(self, flag) ==
    (IF IsTrue(self._is_admin) THEN "Admin" ELSE "") \o (IF flag THEN "Retrieve" ELSE "List")
        \o self._resource_name.value \o "Serializer" \o Str(self._api_version.value)

\* The arguments _build gives _construct_serializer for a flag
SerializerArguments(self, flag) ==
    [serializer_name |-> SerializerName(self, flag),
     fields |-> SerializerList(self, "_fields", flag),
     custom_fields |-> SerializerList(self, "_custom_fields", flag),
     relations |-> SerializerList(self, "_relations", flag),
     generic_relations |-> SerializerList(self, "_generic_relations", flag),
     related_limit |-> self._related_limit.value,
     on_validate |-> IF flag THEN self._before_update_callback
                     ELSE self._before_create_callback]

\* _construct_serializer on the serializers of the model: a serializer of
\* the name is found, or a new one of the arguments is appended
construct_serializer(serializers, arguments) ==
    IF arguments.serializer_name \in DOMAIN serializers THEN serializers
    ELSE DictSet(serializers, arguments.serializer_name, arguments)

\* _MODEL_TO_SERIALIZERS[model] after the loop over [False, True]
SerializersAfter(self, serializers) ==
    construct_serializer(construct_serializer(serializers, SerializerArguments(self, FALSE)),
                         SerializerArguments(self, TRUE))

\* The prefix of the routes in the rounds of for pk_name in ['pk', ...]:
\* the second round starts from what the first left
PkPrefix(self, urls_prefix, round) ==
    IF round = 1
    THEN final_prefix(default_prefix(urls_prefix, IsTrue(self._is_admin)),
                      self._url_api_version.value)
    ELSE final_prefix(final_prefix(default_prefix(urls_prefix, IsTrue(self._is_admin)),
                                   self._url_api_version.value),
                      self._url_api_version.value)

\* The name prefix of a route
AdminView(self) == IF IsTrue(self._is_admin) THEN "admin_view_" ELSE ""

\* The routes of one round: list, detail, relationships, and the related
\* route where related views are exposed and GET is allowed
PkUrls(self, prefix, pk_name) ==
    << Url(Str(prefix) \o self._resource_name.value, None,
           get_dict_by_methods("list", self._allowed_methods.value),
           "list-" \o AdminView(self) \o self._resource_name.value
               \o Str(self._api_version.value)),
       Url(Str(prefix) \o self._resource_name.value, pk_name,
           get_dict_by_methods("get", self._allowed_methods.value),
           AdminView(self) \o self._resource_name.value \o Str(self._api_version.value)
               \o "-detail"),
       Url(Str(prefix) \o self._resource_name.value, pk_name, EmptyDict,
           AdminView(self) \o self._resource_name.value \o Str(self._api_version.value)
               \o "-relationships") >>
    \o (IF IsTrue(self._expose_related_views)
           /\ DOMAIN get_dict_by_methods("relation", self._allowed_methods.value) /= {}
        THEN <<Url(Str(prefix) \o self._resource_name.value, pk_name,
                   get_dict_by_methods("relation", self._allowed_methods.value),
                   "related-" \o AdminView(self) \o self._resource_name.value
                       \o Str(self._api_version.value))>>
        ELSE <<>>)

\* What a get_urls call did: the arguments it gave _construct_serializer
\* for each flag, the serializers of the model after it, the prefix of each
\* round, the routes; and the arguments the get_urls call before it gave
BuildResult(arguments, serializers, prefixes, urls, previous) ==
    [arguments |-> arguments, serializers |-> serializers, prefixes |-> prefixes,
     urls |-> urls, previous |-> previous]

NoArguments == [flag \in {} |-> EmptyDict]

\* builder._build(urls_prefix=urls_prefix), with the serializers of the
\* model as they are and the arguments of the call before
build(self, urls_prefix, serializers, previous) ==
    BuildResult([flag \in BOOLEAN |-> SerializerArguments(self, flag)],
                SerializersAfter(self, serializers),
                <<PkPrefix(self, urls_prefix, 1), PkPrefix(self, urls_prefix, 2)>>,
                PkUrls(self, PkPrefix(self, urls_prefix, 1), "pk")
                    \o PkUrls(self, PkPrefix(self, urls_prefix, 2),
                              self._primary_key_name.value),
                previous)

\* The constructor calls of the model: the versions, admin or not, related
\* views or not
Versions == {<<>>, <<"1">>, <<"1", ".", "0">>}
BuildKwargs ==
    { [InitDefaults(Some(Article)) EXCEPT !.api_version = Some(version),
                                          !.is_admin = Some(is_admin),
                                          !.expose_related_views = Some(is_admin)] :
          version \in Versions, is_admin \in BOOLEAN }

\* The prefixes given to get_urls: none; with and without the slash; one
\* that has the version of the URL as a path segment; two that have its
\* text inside another segment
UrlPrefixes ==
    { NoneValue,
      Some(<<"a", "p", "i", "/">>),
      Some(<<"a", "p", "i">>),
      Some(<<"a", "p", "i", "/", "v", "1", "/">>),
      Some(<<"d", "e", "v", "1", "/">>),
      Some(<<"v", "1", "0", "0", "/">>) }

\* The arguments of a get_urls call in the model: the prefix, the builder
\* as the call found it, the configuration calls made on it before, and how
\* many get_urls calls were made
BuildCall(urls_prefix, self, calls, builds) ==
    [urls_prefix |-> urls_prefix, self |-> self, calls |-> calls, builds |-> builds]

\* No get_urls call was made, and no serializer exists
InitBuild ==
    /\ call_name = "none"
    /\ call_args = BuildCall(NoneValue, NewObject, <<>>, 0)
    /\ call_result = BuildResult(NoArguments, EmptyDict, <<>>, <<>>, NoArguments)

\* The calls on one builder are bounded together
CanCall == Len(builder_calls) + call_args.builds < MaxCalls

notBuilderCallVars == <<routeVars, excVars, listVars, destroyVars, performListVars>>

\* urls = builder.get_urls(urls_prefix=urls_prefix)
GetUrls(urls_prefix) ==
    /\ builder_pc = "built"
    /\ CanCall
    /\ call_name' = "get_urls"
    /\ call_args' = BuildCall(urls_prefix, builder, builder_calls, call_args.builds + 1)
    /\ call_result' = build(builder, urls_prefix, call_result.serializers, call_result.arguments)
    /\ builder' = AfterSerializers(builder)
    /\ UNCHANGED <<builder_pc, builder_kwargs, builder_calls, builder_result, notBuilderCallVars>>

AddGenericRelation(field, limit_to_on_retrieve) ==
    /\ CanConfigure
    /\ Configure(Call("add_generic_relation", limit_to_on_retrieve, <<field, FALSE>>),
                 add_generic_relation(builder, field,
                                      <<RelatedResource("comments", <<"1", ".", "0">>)>>,
                                      FALSE, limit_to_on_retrieve, FALSE))

NextBuild ==
    \/ \E kw \in BuildKwargs : Construct(kw)
    \/ \E flag \in BOOLEAN : CanCall /\ Fields(<<"title", "body">>, flag)
    \/ \E flag \in BOOLEAN : CanCall /\ AddCustomField("score", "score_of", flag)
    \/ \E flag \in BOOLEAN : CanCall /\ AddRelation("author", FALSE, flag)
    \/ \E flag \in BOOLEAN : CanCall /\ AddGenericRelation("target", flag)
    \/ \E urls_prefix \in UrlPrefixes : GetUrls(urls_prefix)

-----------------------------------------------------------------------------
(* factory.py: override on a constructed JsonApiModelViewBuilder *)

\* Bound: the override calls on one builder
MaxOverrides == 2

\* The arguments of builder.override(**passed): what is passed, and for the
\* rest the defaults of the signature, None but for always_include
OverrideArguments(passed) ==
    [kwarg \in DOMAIN InitDefaults(NoneValue) |->
        IF kwarg \in DOMAIN passed THEN Some(passed[kwarg])
        ELSE IF kwarg = "always_include" THEN Some(FALSE)
        ELSE NoneValue]

\* The builders of the model: a model alone; one with a queryset of its own,
\* always_include and fewer methods; one with a method outside HTTP_ALL
OverrideBuilders ==
    { InitDefaults(Some(Article)),
      [InitDefaults(Some(Article)) EXCEPT !.queryset = Some("Article.published"),
                                          !.always_include = Some(TRUE),
                                          !.api_version = Some(<<"1", ".", "0">>),
                                          !.allowed_methods = Some(<<HTTP_GET, HTTP_POST>>)],
      [InitDefaults(Some(Article)) EXCEPT !.always_include = Some(TRUE)],
      [InitDefaults(Some(Article)) EXCEPT !.allowed_methods = Some(<<"PUT", HTTP_GET>>)] }

\* What the override calls of the model pass
OverridePassed ==
    { EmptyDict,
      "api_version" :> <<"2", ".", "1">>,
      "page_size" :> 10,
      "allowed_methods" :> <<HTTP_GET>>,
      "allowed_methods" :> <<"PUT", HTTP_GET, "HEAD">>,
      ("allowed_methods" :> <<HTTP_PATCH, "put">>) @@ ("api_version" :> <<"3">>)
          @@ ("is_admin" :> TRUE),
      "always_include" :> TRUE,
      "queryset" :> "Article.drafts",
      ("resource_name" :> "posts") @@ ("primary_key_name" :> "slug") }

\* An override call in the model: what was passed, the builder as the call
\* found it, and how many override calls were made
OverrideCall(passed, self, overrides) ==
    [passed |-> passed, self |-> self, overrides |-> overrides]

\* No override call was made
InitOverride ==
    /\ call_name = "none"
    /\ call_args = OverrideCall(EmptyDict, NewObject, 0)
    /\ call_result = NoOutcome

\* builder.override(**passed)
Override(passed) ==
    /\ builder_pc = "built"
    /\ call_args.overrides < MaxOverrides
    /\ call_name' = "override"
    /\ call_args' = OverrideCall(passed, builder, call_args.overrides + 1)
    /\ call_result' = Outcome(override(builder, OverrideArguments(passed)))
    /\ builder_result' = Outcome(override(builder, OverrideArguments(passed)))
    /\ builder' = override(builder, OverrideArguments(passed)).self
    /\ UNCHANGED <<builder_pc, builder_kwargs, builder_calls, notBuilderCallVars>>

NextOverride ==
    \/ \E kw \in OverrideBuilders : Construct(kw)
    \/ \E passed \in OverridePassed : Override(passed)

-----------------------------------------------------------------------------
(* sql_alchemy/constructors.py: json_api_dump and the dump of the schema that
   auto_construct_schema builds *)

\* Bound: the objects of a list given to json_api_dump
MaxObjects == 2

\* Serialized values: a string, None, a list, a dict; s is the text of a
\* string, items the items of a list, d the dict
Scalar(v) == [t |-> "str", s |-> v, items |-> <<>>, d |-> EmptyDict]
PyNone == [t |-> "None", s |-> "", items |-> <<>>, d |-> EmptyDict]
ListValue(items) == [t |-> "list", s |-> "", items |-> items, d |-> EmptyDict]
DictValue(d) == [t |-> "dict", s |-> "", items |-> <<>>, d |-> d]

\* isinstance(item, dict), and the truth of a serialized value
IsDict(item) == item.t = "dict"
Truthy(item) ==
    \/ item.t = "str" /\ item.s /= ""
    \/ item.t = "list" /\ item.items /= <<>>
    \/ item.t = "dict" /\ DOMAIN item.d /= {}

\* A dict without some of its keys
Without(d, keys) == [k \in DOMAIN d \ keys |-> d[k]]

\* AlchemyRelation(field_name, model, resource_name), by model.__tablename__
AlchemyRelation(field_name, tablename, resource_name) ==
    [field_name |-> field_name, tablename |-> tablename, resource_name |-> resource_name]

\* support_relations of the schema in the model
support_relations ==
    << AlchemyRelation("author", "user", Some("users")),
       AlchemyRelation("tags", "tag", NoneValue) >>

\* relation.resource_name or relation.model.__tablename__
RelationType(relation) ==
    IF ~relation.resource_name.is_none /\ relation.resource_name.value /= ""
    THEN relation.resource_name.value ELSE relation.tablename

\* {'type': ..., 'id': item}
ResourceIdentifier(relation, item) ==
    DictValue(("type" :> Scalar(RelationType(relation))) @@ ("id" :> item))

\* relationships[relation.field_name] of _custom_dump
Linkage(relation, id_or_ids) ==
    IF id_or_ids.t = "list"
    THEN ListValue([i \in 1..Len(id_or_ids.items) |-> ResourceIdentifier(relation, id_or_ids.items[i])])
    ELSE IF Truthy(id_or_ids) THEN ResourceIdentifier(relation, id_or_ids)
    ELSE PyNone
Relationship(relation, id_or_ids, with_data) ==
    IF with_data THEN DictValue("data" :> Linkage(relation, id_or_ids))
    ELSE Linkage(relation, id_or_ids)

\* The relations of support_relations whose field is a key of data
RelationFields(data) ==
    {support_relations[i].field_name : i \in 1..Len(support_relations)} \cap DOMAIN data
RelationOf(field_name) ==
    CHOOSE relation \in Range(support_relations) : relation.field_name = field_name

\* _custom_dump(data, with_data)
custom_dump_entry(data, with_data) ==
    ("relationships" :>
        DictValue([field_name \in RelationFields(data) |->
                 Relationship(RelationOf(field_name), data[field_name], with_data)]))
        @@ Without(data, RelationFields(data))

\* The body of the if in json_api_dump: the entry is taken apart and put
\* together as type, id, attributes, relationships
Restructure(entry, resource_type) ==
    ("type" :> Scalar(resource_type)) @@ ("id" :> entry["id"])
        @@ ("attributes" :> DictValue(Without(entry, {"relationships", "id"})))
        @@ ("relationships" :> entry["relationships"])

RECURSIVE RestructureTimes(_, _, _)
RestructureTimes(entry, resource_type, n) ==
    IF n = 0 THEN entry
    ELSE RestructureTimes(Restructure(entry, resource_type), resource_type, n - 1)

\* The items of list(entry.items()) that are dicts
DictItems(entry) == {key \in DOMAIN entry : IsDict(entry[key])}

\* The loop over list(entry.items()): the body runs once for every item of
\* the entry, as it was before the loop, that is a dict
dump_entry(entry, resource_type) ==
    RestructureTimes(entry, resource_type, Cardinality(DictItems(entry)))

\* schema.json_api_dump(objects, resource_type, with_data), for objects as
\* SQLAlchemySchema.dump serializes them: a list of dicts, or one dict
json_api_dump(objects, resource_type, with_data) ==
    IF objects.t = "list"
    THEN ListValue([i \in 1..Len(objects.items) |->
                  DictValue(dump_entry(custom_dump_entry(objects.items[i].d, with_data), resource_type))])
    ELSE DictValue(dump_entry(custom_dump_entry(objects.d, with_data), resource_type))

\* The serialized objects of the model: an id and a title; with or without
\* a JSON column; with an author, with an empty author, or without the
\* field; with or without tags
Optionally(key, values) == {[k \in {} |-> PyNone]} \cup {key :> value : value \in values}
SerializedObjects ==
    { (("id" :> Scalar(id)) @@ ("title" :> Scalar("Title"))) @@ settings_ @@ author @@ tags :
        id \in {"1", "2"},
        settings_ \in Optionally("settings", {DictValue("theme" :> Scalar("dark"))}),
        author \in Optionally("author", {Scalar("7"), PyNone}),
        tags \in Optionally("tags", {ListValue(<<Scalar("3"), Scalar("4")>>)}) }

\* What json_api_dump is given: one object, or a list of objects
DumpInputs ==
    {DictValue(object) : object \in SerializedObjects}
        \cup {ListValue(objects) : objects \in
                 UNION {[1..n -> {DictValue(object) : object \in SerializedObjects}] : n \in 0..MaxObjects}}

DumpCall(objects, resource_type, with_data) ==
    [objects |-> objects, resource_type |-> resource_type, with_data |-> with_data]

\* A schema is about to dump some objects
InitDump ==
    /\ call_name = "none"
    /\ call_args \in {DumpCall(objects, "articles", with_data) :
                         objects \in DumpInputs, with_data \in BOOLEAN}
    /\ call_result = PyNone

\* result = schema.json_api_dump(objects, resource_type, with_data)
JsonApiDump ==
    /\ call_name = "none"
    /\ call_name' = "json_api_dump"
    /\ call_result' = json_api_dump(call_args.objects, call_args.resource_type,
                                    call_args.with_data)
    /\ UNCHANGED <<call_args, notCallVars>>

NextDump == JsonApiDump

-----------------------------------------------------------------------------
(* namespace.py and constructors.py: the serializer classes of the models
   and the names of the namespace module, over the builds of several
   builders *)

\* Bound: the most get_urls calls the application makes, over all builders
MaxBuilds == 2

\* Bound: the most configuration calls the application makes, over all
\* builders
MaxDeclarations == 1

\* Two more models: one whose table gives the resource name of Article, and
\* one that Article relates to
NewsArticle == Model(<<"n", "e", "w", "s", "_", "a", "r", "t", "i", "c", "l", "e">>)
Author == Model(<<"b", "l", "o", "g", "_", "a", "u", "t", "h", "o", "r">>)

\* builder.add_dummy_include(field_name)
add_dummy_include(self, field_name) ==
    ReturnSelf([self EXCEPT !["_dummy_includes"] =
                   Some(self._dummy_includes.value \o <<field_name>>)], FALSE)

\* A class made by type(name, (base,), {...}): every type(...) call makes a
\* class of its own, told apart by id, the number of classes made before it
\* plus one. model is None for a class that has no Meta.
Class(id, name, base, model, arguments, included_serializers, included_generic_serializers) ==
    [id |-> id, name |-> name, base |-> base, model |-> model, arguments |-> arguments,
     included_serializers |-> included_serializers,
     included_generic_serializers |-> included_generic_serializers]

\* The module-level state of namespace.py: the two dicts, the globals() of
\* the module; and every class made so far, in the order of their making
Registry(resource_name_to_spice, model_to_serializers, globals, constructed) ==
    [resource_name_to_spice |-> resource_name_to_spice,
     model_to_serializers |-> model_to_serializers,
     globals |-> globals, constructed |-> constructed]

\* The namespace module as imported
EmptyRegistry == Registry(EmptyDict, EmptyDict, EmptyDict, <<>>)

\* _append_to_namespace(type): globals()[type.__name__] = type
_append_to_namespace(registry, type) ==
    [registry EXCEPT !.globals = DictSet(registry.globals, type.name, type)]

\* A lookup that takes a serializer of the model as found only if it was
\* also constructed from the same arguments
FoundSerializer_SameArguments(registry, model, arguments) ==
    IF model \in DOMAIN registry.model_to_serializers
    THEN SelectSeq(registry.model_to_serializers[model],
                   LAMBDA serializer : /\ serializer.name = arguments.serializer_name
                                       /\ serializer.arguments = arguments)
    ELSE <<>>

\* found_serializer: the serializers of the model that have the name
FoundSerializer(registry, model, arguments) ==
    IF model \in DOMAIN registry.model_to_serializers
    THEN SelectSeq(registry.model_to_serializers[model],
                   LAMBDA serializer : serializer.name = arguments.serializer_name)
    ELSE <<>>

\* "Admin" if is_admin else "", then the serializer prefix
SerializerPrefix(self, flag) ==
    (IF IsTrue(self._is_admin) THEN "Admin" ELSE "") \o (IF flag THEN "Retrieve" ELSE "List")

\* The dotted path of the serializer of a resource and version
DottedPath(self, flag, resource_name, api_version) ==
    "drf_json_api_utils.namespace." \o SerializerPrefix(self, flag) \o resource_name
        \o "Serializer" \o Str(api_version)

\* for relation in relations: included_serializers[relation.field] = ...
RECURSIVE IncludeRelations(_, _, _, _)
IncludeRelations(included, relations, self, flag) ==
    IF relations = <<>> THEN included
    ELSE IncludeRelations(DictSet(included, relations[1].field,
                                  DottedPath(self, flag, relations[1].resource_name,
                                             relations[1].api_version)),
                          Tail(relations), self, flag)

\* The arguments of a class with no field, relation or callback
NoSerializerArguments(serializer_name) ==
    [serializer_name |-> serializer_name, fields |-> <<>>, custom_fields |-> <<>>,
     relations |-> <<>>, generic_relations |-> <<>>, related_limit |-> 0,
     on_validate |-> NoneValue]

\* dummy_serializer = type(f'{Admin}{prefix}{include}Serializer',
\* (serializers.Serializer,), {})
DummySerializer(id, self, flag, include) ==
    Class(id, SerializerPrefix(self, flag) \o include \o "Serializer", "Serializer", NoneValue,
          NoSerializerArguments(SerializerPrefix(self, flag) \o include \o "Serializer"),
          EmptyDict, EmptyDict)

\* What the loops of _construct_serializer carry: the namespace module and
\* the two dicts of the class under construction
Includes(registry, included_serializers, included_generic_serializers) ==
    [registry |-> registry, included_serializers |-> included_serializers,
     included_generic_serializers |-> included_generic_serializers]

\* for include in dummy_includes or []: a dummy class is made, put in the
\* namespace, and its path is the included serializer of the include
RECURSIVE IncludeDummies(_, _, _, _)
IncludeDummies(s, dummy_includes, self, flag) ==
    IF dummy_includes = <<>> THEN s
    ELSE IncludeDummies(
             Includes(_append_to_namespace(
                          [s.registry EXCEPT !.constructed =
                              Append(@, DummySerializer(Len(s.registry.constructed) + 1,
                                                        self, flag, dummy_includes[1]))],
                          DummySerializer(Len(s.registry.constructed) + 1,
                                          self, flag, dummy_includes[1])),
                      DictSet(s.included_serializers, dummy_includes[1],
                              "drf_json_api_utils.namespace."
                                  \o DummySerializer(0, self, flag, dummy_includes[1]).name),
                      s.included_generic_serializers),
             Tail(dummy_includes), self, flag)

\* d[field].append(path), with d[field] = [] first where field is not in d
AppendTo(d, field, path) ==
    DictSet(d, field, (IF field \in DOMAIN d THEN d[field] ELSE <<>>) \o <<path>>)

\* for related in getattr(relation, 'related', []): the path joins the
\* generic serializers of the field and becomes its included serializer
RECURSIVE IncludeRelated(_, _, _, _, _)
IncludeRelated(s, field, related, self, flag) ==
    IF related = <<>> THEN s
    ELSE IncludeRelated(
             Includes(s.registry,
                      DictSet(s.included_serializers, field,
                              DottedPath(self, flag, related[1].resource_name,
                                         related[1].api_version)),
                      AppendTo(s.included_generic_serializers, field,
                               DottedPath(self, flag, related[1].resource_name,
                                          related[1].api_version))),
             field, Tail(related), self, flag)

\* for relation in generic_relations: ...
RECURSIVE IncludeGenericRelations(_, _, _, _)
IncludeGenericRelations(s, generic_relations, self, flag) ==
    IF generic_relations = <<>> THEN s
    ELSE IncludeGenericRelations(
             IncludeRelated(s, generic_relations[1].field, generic_relations[1].related,
                            self, flag),
             Tail(generic_relations), self, flag)

\* The three loops that fill included_serializers, in the order of the code
AllIncludes(registry, self, flag) ==
    IncludeGenericRelations(
        IncludeDummies(Includes(registry,
                                IncludeRelations(EmptyDict,
                                                 SerializerArguments(self, flag).relations,
                                                 self, flag),
                                EmptyDict),
                       self._dummy_includes.value, self, flag),
        SerializerArguments(self, flag).generic_relations, self, flag)

\* new_serializer = type(serializer_name, (GenericSerializer,), {...}), after
\* the loops s
NewSerializer(s, self, flag) ==
    Class(Len(s.registry.constructed) + 1, SerializerName(self, flag), "GenericSerializer",
          Some(self._model.value), SerializerArguments(self, flag),
          s.included_serializers, s.included_generic_serializers)

\* if model not in _MODEL_TO_SERIALIZERS: _MODEL_TO_SERIALIZERS[model] = []
\* _MODEL_TO_SERIALIZERS[model].append(new_serializer)
Register(registry, model, new_serializer) ==
    [registry EXCEPT
        !.constructed = Append(@, new_serializer),
        !.model_to_serializers =
            DictSet(@, model,
                    (IF model \in DOMAIN @ THEN @[model] ELSE <<>>) \o <<new_serializer>>)]

\* What _construct_serializer did: the namespace module after it, the class
\* it returned, and whether that class was found
Constructed(registry, returned, found) ==
    [registry |-> registry, returned |-> returned, found |-> found]

\* _construct_serializer('Retrieve' if flag else 'List', self._api_version,
\* self._model, ...) as _build calls it
_construct_serializer(registry, self, flag) ==
    LET found_serializer ==
            FoundSerializer(registry, self._model.value, SerializerArguments(self, flag))
        includes == AllIncludes(registry, self, flag)
        new_serializer == NewSerializer(includes, self, flag)
    IN IF found_serializer /= <<>>
       THEN Constructed(registry, found_serializer[1], TRUE)
       ELSE Constructed(Register(includes.registry, self._model.value, new_serializer),
                        new_serializer, FALSE)

\* One round of for limit_to_on_retrieve in [False, True]: the serializer,
\* then _append_to_namespace of it
SerializerRound(registry, self, flag) ==
    LET serializer == _construct_serializer(registry, self, flag)
    IN Constructed(_append_to_namespace(serializer.registry, serializer.returned),
                   serializer.returned, serializer.found)

\* if self._spice_queryset is not None:
\*     _RESOURCE_NAME_TO_SPICE[self._resource_name] = self._spice_queryset
SetSpice(registry, self) ==
    IF self._spice_queryset.is_none THEN registry
    ELSE [registry EXCEPT !.resource_name_to_spice =
             DictSet(@, self._resource_name.value, self._spice_queryset.value)]

\* What a get_urls call did to the namespace module: the module before and
\* after it, method_to_serializer, whether each serializer was found, and
\* the routes
RegistryResult(before, registry, method_to_serializer, found, urls) ==
    [before |-> before, registry |-> registry, method_to_serializer |-> method_to_serializer,
     found |-> found, urls |-> urls]

\* builder._build(urls_prefix=urls_prefix) on the namespace module as it is
build_in(registry, self, urls_prefix) ==
    LET list_round == SerializerRound(registry, self, FALSE)
        retrieve_round == SerializerRound(list_round.registry, self, TRUE)
    IN RegistryResult(
           registry,
           SetSpice(retrieve_round.registry, self),
           [flag \in BOOLEAN |-> IF flag THEN retrieve_round.returned ELSE list_round.returned],
           [flag \in BOOLEAN |-> IF flag THEN retrieve_round.found ELSE list_round.found],
           PkUrls(self, PkPrefix(self, urls_prefix, 1), "pk")
               \o PkUrls(self, PkPrefix(self, urls_prefix, 2), self._primary_key_name.value))

\* The constructor calls of the application: the three models, and Article
\* also as an admin resource
RegistryKwargs ==
    { InitDefaults(Some(Article)),
      InitDefaults(Some(NewsArticle)),
      InitDefaults(Some(Author)),
      [InitDefaults(Some(Article)) EXCEPT !.is_admin = Some(TRUE)] }

\* The arguments of a get_urls call: the prefix and the builder as the call
\* found it; and how many get_urls calls and configuration calls the
\* application has made
RegistryCall(urls_prefix, self, builds, declarations) ==
    [urls_prefix |-> urls_prefix, self |-> self, builds |-> builds,
     declarations |-> declarations]

\* No get_urls call was made: the namespace module is as imported
InitRegistry ==
    /\ call_name = "none"
    /\ call_args = RegistryCall(NoneValue, NewObject, 0, 0)
    /\ call_result = RegistryResult(EmptyRegistry, EmptyRegistry, NoArguments, NoArguments, <<>>)

\* builder = JsonApiModelViewBuilder(**kw), for the first builder and for
\* each one after it
NewBuilder(kw) ==
    /\ builder_pc \in {"new", "built"}
    /\ call_args.builds < MaxBuilds
    /\ ~__init__(kw).raised
    /\ builder_kwargs' = kw
    /\ builder_result' = Outcome(__init__(kw))
    /\ builder_pc' = "built"
    /\ builder' = __init__(kw).self
    /\ builder_calls' = <<>>
    /\ UNCHANGED notBuilderVars

\* A configuration call on the builder, with outcome r, before or after a
\* get_urls call on it
Declare(call, r) ==
    /\ builder_pc = "built"
    /\ call_args.builds < MaxBuilds
    /\ call_args.declarations < MaxDeclarations
    /\ builder' = r.self
    /\ builder_result' = Outcome(r)
    /\ builder_calls' = Append(builder_calls, call)
    /\ call_args' = [call_args EXCEPT !.declarations = @ + 1]
    /\ UNCHANGED <<builder_pc, builder_kwargs, call_name, call_result, notBuilderCallVars>>

\* urls = builder.get_urls(urls_prefix=urls_prefix)
RegistryGetUrls(urls_prefix) ==
    /\ builder_pc = "built"
    /\ call_args.builds < MaxBuilds
    /\ call_name' = "get_urls"
    /\ call_args' = RegistryCall(urls_prefix, builder, call_args.builds + 1,
                                 call_args.declarations)
    /\ call_result' = build_in(call_result.registry, builder, urls_prefix)
    /\ builder' = AfterSerializers(builder)
    /\ UNCHANGED <<builder_pc, builder_kwargs, builder_calls, builder_result, notBuilderCallVars>>

NextRegistry ==
    \/ \E kw \in RegistryKwargs : NewBuilder(kw)
    \/ Declare(Call("fields", FALSE, <<<<"title", "body">>>>),
               fields(builder, <<"title", "body">>, FALSE))
    \/ Declare(Call("add_relation", FALSE, <<"author", FALSE>>),
               add_relation(builder, "author", FALSE, NoneValue, NoneValue, FALSE, FALSE, <<>>))
    \/ Declare(Call("add_generic_relation", FALSE, <<"target", FALSE>>),
               add_generic_relation(builder, "target",
                                    <<RelatedResource("comments", <<"1", ".", "0">>)>>,
                                    FALSE, FALSE, FALSE))
    \/ Declare(Call("add_dummy_include", FALSE, <<"author">>),
               add_dummy_include(builder, "author"))
    \/ Declare(Call("before_create", FALSE, <<SetterArgument(LIFECYCLE_SETTERS[1])>>),
               lifecycle_setter(builder, LIFECYCLE_SETTERS[1],
                                SetterArgument(LIFECYCLE_SETTERS[1])))
    \/ RegistryGetUrls(NoneValue)

-----------------------------------------------------------------------------
(* The specifications *)

\* get_dict_by_methods alone
RoutesInit ==
    InitRoutes /\ IdleExc /\ IdleList /\ IdleBuilder /\ IdleDestroy /\ IdlePerformList /\ IdleCall
SpecRoutes == RoutesInit /\ [][NextRoutes]_vars

\* exception_handler alone
ExcInit ==
    InitExc /\ IdleRoutes /\ IdleList /\ IdleBuilder /\ IdleDestroy /\ IdlePerformList /\ IdleCall
SpecExc == ExcInit /\ [][NextExc]_vars

\* The list handler of a resource view alone (the settings singleton has no
\* attribute set)
ListInit ==
    InitList /\ IdleRoutes /\ IdleExc /\ IdleBuilder /\ IdleDestroy /\ IdlePerformList /\ IdleCall
SpecList == ListInit /\ [][NextList]_vars

\* The construction and configuration of a model view builder alone
BuilderInit ==
    InitBuilder /\ IdleRoutes /\ IdleExc /\ IdleList /\ IdleDestroy /\ IdlePerformList /\ IdleCall
SpecBuilder == BuilderInit /\ [][NextBuilder]_vars

\* The construction of a model view builder and its lifecycle setters
SettersInit == BuilderInit
SpecSetters == SettersInit /\ [][NextSetters]_vars

\* The DELETE requests of a model view set, whose builder the application
\* constructs and gives its delete callbacks (the settings singleton has no
\* attribute set)
DestroyInit ==
    InitBuilder /\ InitDestroy /\ IdleRoutes /\ IdleExc /\ IdleList /\ IdlePerformList /\ IdleCall
SpecDestroy == DestroyInit /\ [][NextDestroy]_vars

\* The GET requests of the collection of a model view set, whose builder the
\* application constructs and gives its list callbacks
PerformListInit ==
    InitBuilder /\ InitPerformList /\ IdleRoutes /\ IdleExc /\ IdleList /\ IdleDestroy /\ IdleCall
SpecPerformList == PerformListInit /\ [][NextPerformList]_vars

\* The representation of a to-many relationship alone
LiarInit ==
    InitLiar /\ IdleRoutes /\ IdleExc /\ IdleList /\ IdleBuilder /\ IdleDestroy /\ IdlePerformList
SpecLiar == LiarInit /\ [][NextLiar]_vars

\* json_api_view and the routes of its builder alone
ViewInit ==
    InitView /\ IdleRoutes /\ IdleExc /\ IdleList /\ IdleBuilder /\ IdleDestroy /\ IdlePerformList
SpecView == ViewInit /\ [][NextView]_vars

\* The construction and configuration of a model view builder and its
\* get_urls calls, from an empty namespace of serializers
BuildInit ==
    InitBuilder /\ InitBuild /\ IdleRoutes /\ IdleExc /\ IdleList /\ IdleDestroy /\ IdlePerformList
SpecBuild == BuildInit /\ [][NextBuild]_vars

\* The construction of a model view builder and the override calls on it
OverrideInit ==
    InitBuilder /\ InitOverride /\ IdleRoutes /\ IdleExc /\ IdleList /\ IdleDestroy /\ IdlePerformList
SpecOverride == OverrideInit /\ [][NextOverride]_vars

\* json_api_dump of a SQLAlchemy schema alone
DumpInit ==
    InitDump /\ IdleRoutes /\ IdleExc /\ IdleList /\ IdleBuilder /\ IdleDestroy /\ IdlePerformList
SpecDump == DumpInit /\ [][NextDump]_vars

\* The builders of an application, one after the other, each constructed,
\* configured and built, from the namespace module as imported
RegistryInit ==
    InitBuilder /\ InitRegistry /\ IdleRoutes /\ IdleExc /\ IdleList /\ IdleDestroy /\ IdlePerformList
SpecRegistry == RegistryInit /\ [][NextRegistry]_vars

-----------------------------------------------------------------------------
(* Claims *)

\* The route table of C8: <<route type, HTTP method, dict key, view action>>
RouteTable ==
    { <<"list", "GET", "get", "list">>,
      <<"list", "POST", "post", "create">>,
      <<"get", "GET", "get", "retrieve">>,
      <<"get", "PATCH", "patch", "update">>,
      <<"get", "DELETE", "delete", "destroy">>,
      <<"relation", "GET", "get", "retrieve_related">> }

\* C8: get_dict_by_methods maps methods to view actions only for allowed
\* methods: every entry of the result is a row of the route table for the
\* given route type whose method is in allowed_methods, and every such row
\* is in the result; so a method that is not allowed never appears, and no
\* method appears under another route type.
C8_RoutesOnlyForAllowedMethods ==
    route_called =>
        /\ \A k \in DOMAIN out :
              \E r \in RouteTable :
                  /\ r[1] = view_type /\ r[3] = k /\ r[4] = out[k]
                  /\ InList(r[2], allowed_http_methods)
        /\ \A r \in RouteTable :
              (r[1] = view_type /\ InList(r[2], allowed_http_methods))
                  => (r[3] \in DOMAIN out /\ out[r[3]] = r[4])

\* C8 witness: a detail route where PATCH is allowed and DELETE is not
C8_Witness ==
    /\ route_called
    /\ view_type = "get"
    /\ InList(HTTP_PATCH, allowed_http_methods)
    /\ ~InList(HTTP_DELETE, allowed_http_methods)
    /\ DOMAIN out = {"patch"}
    /\ out["patch"] = "update"

\* Neither settings callable raises when it is called.
SettingsCallablesReturn ==
    /\ ~(settings.exception_callback.state = "callable" /\ settings.exception_callback.raises)
    /\ ~(settings.exception_response_handler.state = "callable"
           /\ settings.exception_response_handler.raises)

\* C6: an exception raised inside a wrapped view function becomes a response
\* and never propagates, whether or not exception_callback and
\* exception_response_handler have been set; with no response handler the
\* status is the exception's http_status, or 500, and the message is
\* str(exception); a function that raises nothing returns its own value.
C6_ExceptionsBecomeResponses ==
    exc_pc = "done" =>
        /\ (func.raises /\ SettingsCallablesReturn) => ~wrapper_result.propagated
        /\ (func.raises /\ SettingsCallablesReturn
              /\ settings.exception_response_handler.state /= "callable")
             => wrapper_result.response =
                   [data |-> [attributes |-> [message |-> func.exc.message]],
                    status |-> IF func.exc.has_http_status THEN func.exc.http_status ELSE 500]
        /\ ~func.raises => (~wrapper_result.propagated /\ wrapper_result.response = func.returns)

\* The indices of the calls of the settings callable fn made by the wrapper
CallsOf(fn) == {i \in 1..Len(wrapper_result.calls) : wrapper_result.calls[i].fn = fn}

\* C7: when an exception is handled and exception_callback is configured, the
\* callback is invoked exactly once, with the exception, before the response
\* handler; the response is the response handler's return value when one is
\* configured and the default error response otherwise, whatever the
\* callback returns.
C7_CallbackOnceThenHandler ==
    (exc_pc = "done" /\ func.raises /\ settings.exception_callback.state = "callable") =>
        /\ Cardinality(CallsOf("exception_callback")) = 1
        /\ \A i \in CallsOf("exception_callback") :
              /\ wrapper_result.calls[i].arg = func.exc
              /\ \A j \in CallsOf("exception_response_handler") : i < j
        /\ ~wrapper_result.propagated =>
              wrapper_result.response =
                  IF settings.exception_response_handler.state = "callable"
                  THEN settings.exception_response_handler.returns
                  ELSE [data |-> [attributes |-> [message |-> func.exc.message]],
                        status |-> IF func.exc.has_http_status
                                   THEN func.exc.http_status ELSE 500]

\* C7 witness: both callables are configured and return different values;
\* the callback ran, then the handler, whose value is the response.
C7_Witness ==
    /\ exc_pc = "done"
    /\ func.raises
    /\ settings.exception_callback.state = "callable"
    /\ settings.exception_response_handler.state = "callable"
    /\ settings.exception_callback.returns /= settings.exception_response_handler.returns
    /\ ~wrapper_result.propagated
    /\ Len(wrapper_result.calls) = 2
    /\ wrapper_result.response = settings.exception_response_handler.returns

-----------------------------------------------------------------------------
(* Claims about the list handler *)

\* A key of the form filter[<field>] or filter[<field>.<op>], read as the
\* pattern reads it: "filter[" in any case, a field of n >= 1 word
\* characters, d dots, an op of m word characters (none without a dot), and
\* "]"; whatever follows the bracket is not looked at.
KeyShape(key, n, d, m) ==
    LET L == Len(FILTER_LITERAL)
    IN  /\ n >= 1 /\ (d = 0 => m = 0)
        /\ Len(key) >= L + n + d + m + 1
        /\ key[L + n + d + m + 1] = "]"
        /\ \A i \in (L + n + 1)..(L + n + d) : key[i] = "."
        /\ \A i \in (L + 1)..(L + n) : key[i] \in FieldChars
        /\ \A i \in (L + n + d + 1)..(L + n + d + m) : key[i] \in FieldChars
        /\ \A i \in 1..L : lower(key[i]) = FILTER_LITERAL[i]

\* The ways to read key as a filter key (there is at most one)
KeyShapes(key) ==
    LET K == Len(key) - Len(FILTER_LITERAL) - 1
    IN  {f \in (1..K) \X (0..K) \X (0..K) : KeyShape(key, f[1], f[2], f[3])}

\* <field> and <op> of a key read as the shape f; <op> is "" where the key
\* has none
FieldOfKey(key, f) == Str(SubSeq(key, Len(FILTER_LITERAL) + 1, Len(FILTER_LITERAL) + f[1]))
OpOfKey(key, f) ==
    Str(SubSeq(key, Len(FILTER_LITERAL) + f[1] + f[2] + 1,
               Len(FILTER_LITERAL) + f[1] + f[2] + f[3]))

\* The request's filter parameters, in parameter order, each with the
\* <field> and <op> of its key
FilterParams ==
    LET shapes == [i \in 1..Len(query_params) |-> KeyShapes(query_params[i].key)]
        at == SelectSeq([i \in 1..Len(query_params) |-> i], LAMBDA i : shapes[i] /= {})
    IN  [j \in 1..Len(at) |->
            LET key == query_params[at[j]].key
                f == CHOOSE f \in shapes[at[j]] : TRUE
            IN  [key |-> key, value |-> query_params[at[j]].value,
                 field |-> FieldOfKey(key, f), op |-> OpOfKey(key, f)]]

\* C2: the filters list passed to the on_list callback holds exactly one
\* entry per query parameter whose key is a filter key, in parameter order;
\* the entry's field is the key's <field>, and its op is FILTER_MAP[<op>]
\* where <op> is a key of FILTER_MAP; other parameters (page_number,
\* include) add no entry.
C2_OneFilterPerFilterKey ==
    (list_pc = "done" /\ list_result.called) =>
        LET params == FilterParams
        IN  /\ Len(list_result.filters) = Len(params)
            /\ \A j \in 1..Len(params) :
                  /\ list_result.filters[j].field = params[j].field
                  /\ params[j].op \in DOMAIN FILTER_MAP
                        => list_result.filters[j].op = FILTER_MAP[params[j].op]

\* C2 witness: the callback got two filters, for a known operator and for a
\* bare field, in the order of the request's parameters.
C2_Witness ==
    /\ list_pc = "done" /\ list_result.called
    /\ Len(query_params) = 2
    /\ query_params[1].key = FILTER_LITERAL \o <<"x", ".", "g", "t", "e", "]">>
    /\ query_params[2].key = FILTER_LITERAL \o <<"a", "]">>
    /\ Len(list_result.filters) = 2
    /\ list_result.filters[1].op = ">=" /\ list_result.filters[1].field = "x"
    /\ list_result.filters[2].op = "==" /\ list_result.filters[2].field = "a"

\* C3: a filter key with no operator, or with an operator token that is no
\* key of FILTER_MAP, yields a filter entry whose op is '=='; and no filter
\* key is rejected for its operator token: where the handler stops before
\* the end of the filter parameters, the one it stopped at has an operator
\* that is a key of FILTER_MAP.
C3_UnknownOperatorIsEquality ==
    list_pc = "done" =>
        LET params == FilterParams
            n == Len(list_result.filters)
        IN  /\ n <= Len(params)
            /\ \A j \in 1..n :
                  params[j].op \notin DOMAIN FILTER_MAP => list_result.filters[j].op = "=="
            /\ n < Len(params) => params[n + 1].op \in DOMAIN FILTER_MAP

\* C3 witness: an unknown operator token and a bare field, both as equality
C3_Witness ==
    /\ list_pc = "done" /\ list_result.called
    /\ Len(list_result.filters) = 2
    /\ FilterParams[1].op = "zz"
    /\ FilterParams[2].op = ""
    /\ list_result.filters[1].op = "==" /\ list_result.filters[2].op = "=="

\* The Python list of the pieces of the raw value between its commas
RawPieces(raw) ==
    LET commas == {i \in 1..Len(raw) : raw[i] = ","}
        cuts == commas \cup {0, Len(raw) + 1}
        starts == {c \in cuts : c <= Len(raw)}
        Nth(k) == CHOOSE c \in starts : Cardinality({b \in starts : b < c}) = k - 1
        End(c) == CHOOSE e \in cuts : e > c /\ \A b \in cuts : b > c => e <= b
    IN  [t |-> "list", s |-> <<>>,
         items |-> [k \in 1..Cardinality(starts) |->
                        [t |-> "str", s |-> SubSeq(raw, Nth(k) + 1, End(Nth(k)) - 1),
                         items |-> <<>>]]]

\* C4: every filter parameter gets its entry; for an operator that maps to
\* in, not_in, any or not_any the entry's value is the list of the pieces of
\* the raw value between its commas, whatever the raw value (numbers with
\* commas between them too); for every other operator the value is no list.
C4_MultipleValuesAreSplitRawValues ==
    list_pc = "done" =>
        LET params == FilterParams
        IN  /\ Len(list_result.filters) = Len(params)
            /\ \A j \in 1..Len(params) :
                  IF /\ params[j].op \in DOMAIN FILTER_MAP
                     /\ FILTER_MAP[params[j].op] \in {"in", "not_in", "any", "not_any"}
                  THEN list_result.filters[j].value = RawPieces(params[j].value)
                  ELSE list_result.filters[j].value.t /= "list"

\* The page the request asks for: page_number, 1 without it
RequestedPage ==
    IF \E i \in 1..Len(query_params) : query_params[i].key = PAGE_NUMBER
    THEN LET v == (CHOOSE q \in Range(query_params) : q.key = PAGE_NUMBER).value
         IN  CHOOSE n \in 0..9 : v = <<DecimalDigits[n + 1]>>
    ELSE 1

\* ceil(count / page_size): the least number of pages that hold count items
PagesFor(count, page_size) == CHOOSE p \in 0..count : p * page_size >= count
                                   /\ \A q \in 0..count : q * page_size >= count => p <= q

\* C5: the list response reports page = the requested page_number (1 by
\* default), count = the callback's count and pages = ceil(count /
\* page_size); links.first is page 1 and links.last is page `pages`;
\* links.previous is null iff page <= 1 and page - 1 otherwise; links.next is
\* null iff page = pages or pages <= 1, and page + 1 otherwise.
C5_PaginationMetaAndLinks ==
    (list_pc = "done" /\ list_result.called /\ ~list_result.body.raises) =>
        LET response == list_result.body.returns.data
            meta == response.meta.pagination
            links == response.links
            count == list_result.callback_returned.count
            page == RequestedPage
            pages == PagesFor(count, list_builder._page_size)
        IN  /\ list_result.page = page
            /\ meta = [page |-> page, pages |-> pages, count |-> count]
            /\ ~links.first.null /\ links.first.page_number = 1
            /\ ~links.last.null /\ links.last.page_number = pages
            /\ links.previous.null <=> page <= 1
            /\ ~links.previous.null => links.previous.page_number = page - 1
            /\ links.next.null <=> (page = pages \/ pages <= 1)
            /\ ~links.next.null => links.next.page_number = page + 1
            /\ list_result.result = Returned(list_result.body.returns, <<>>)

\* C5 witness: page 2 of 3 items in pages of 2: two pages, a previous link
\* and no next link
C5_Witness ==
    /\ list_pc = "done" /\ list_result.called /\ ~list_result.body.raises
    /\ list_builder._page_size = 2
    /\ list_result.callback_returned.count = 3
    /\ LET response == list_result.body.returns.data
       IN  /\ response.meta.pagination = [page |-> 2, pages |-> 2, count |-> 3]
           /\ response.links.previous.page_number = 1
           /\ response.links.next.null


(* Claims about the model view builder *)

\* C1: constructing JsonApiModelViewBuilder with model=None and every other
\* argument at its default completes without raising: once the constructor
\* has been called with these arguments, the builder is built.
C1_ConstructWithoutModelCompletes ==
    (builder_pc \in {"built", "raised"} /\ builder_kwargs = InitDefaults(NoneValue))
        => (builder_pc = "built" /\ ~builder_result.raised)

\* What a logged call adds to the lists of the dict attribute named attribute
Added(call, attribute) ==
    IF attribute = "_fields" /\ call.method = "fields" THEN call.args[1]
    ELSE IF attribute = "_fields" /\ call.method = "add_field" THEN <<call.args[1]>>
    ELSE IF attribute = "_custom_fields" /\ call.method = "add_custom_field"
    THEN <<[name |-> call.args[1], callback |-> call.args[2]]>>
    ELSE IF attribute = "_custom_fields" /\ call.method = "custom_fields"
    THEN [i \in 1..Len(call.args[1]) |->
             [name |-> call.args[1][i][1], callback |-> call.args[1][i][2]]]
    ELSE IF attribute = "_relations" /\ call.method = "add_relation"
    THEN <<[field |-> call.args[1], resource_name |-> call.args[1], many |-> call.args[2],
            primary_key_name |-> NoneValue, required |-> FALSE, api_version |-> <<>>]>>
    ELSE IF attribute = "_generic_relations" /\ call.method = "add_generic_relation"
    THEN <<[field |-> call.args[1], many |-> call.args[2], required |-> FALSE,
            related |-> <<[resource_name |-> "comments", api_version |-> <<"1", "0">>]>>]>>
    ELSE <<>>

\* The methods that add to the lists of the dict attribute named attribute
Adders(attribute) ==
    IF attribute = "_fields" THEN {"fields", "add_field"}
    ELSE IF attribute = "_custom_fields" THEN {"add_custom_field", "custom_fields"}
    ELSE IF attribute = "_relations" THEN {"add_relation"}
    ELSE IF attribute = "_generic_relations" THEN {"add_generic_relation"}
    ELSE {}

\* The concatenation, in call order, of what the first n logged calls added
\* to the attribute with the flag
RECURSIVE AddedInOrder(_, _, _, _)
AddedInOrder(calls, n, attribute, flag) ==
    IF n = 0 THEN <<>>
    ELSE AddedInOrder(calls, n - 1, attribute, flag)
             \o (IF calls[n].limit_to_on_retrieve = flag
                 THEN Added(calls[n], attribute) ELSE <<>>)

\* The dict attributes that hold a list per limit_to_on_retrieve flag
ListAttributes == {"_fields", "_custom_fields", "_relations", "_generic_relations"}

\* C9: every configuration call returns the builder it was called on, and
\* after any sequence of calls the list of each kind for each
\* limit_to_on_retrieve flag is the concatenation, in call order, of what
\* was added of that kind with that flag: a flag has a list exactly when a
\* call of that kind was made with it, and nothing else is in any list.
C9_FluentAndListsConcatenate ==
    builder_pc = "built" =>
        /\ builder_calls /= <<>> =>
               (~builder_result.raised /\ builder_result.returns = "self")
        /\ \A attribute \in ListAttributes :
               /\ DOMAIN builder[attribute].value =
                      {builder_calls[i].limit_to_on_retrieve :
                           i \in {j \in 1..Len(builder_calls) :
                                      builder_calls[j].method \in Adders(attribute)}}
               /\ \A flag \in DOMAIN builder[attribute].value :
                      builder[attribute].value[flag] =
                          AddedInOrder(builder_calls, Len(builder_calls), attribute, flag)

\* C9 witness: fields and add_field without the flag, then add_field with
\* it: the first two are one list in call order, the third is the other list
C9_Witness ==
    /\ builder_pc = "built"
    /\ Len(builder_calls) = 3
    /\ builder_calls[1].method = "fields" /\ ~builder_calls[1].limit_to_on_retrieve
    /\ builder_calls[2].method = "add_field" /\ ~builder_calls[2].limit_to_on_retrieve
    /\ builder_calls[3].method = "add_field" /\ builder_calls[3].limit_to_on_retrieve
    /\ builder_result.returns = "self"
    /\ builder._fields.value[FALSE] = <<"title", "body", "slug">>
    /\ builder._fields.value[TRUE] = <<"slug">>
    /\ DOMAIN builder._relations.value = {}


(* Claims about perform_destroy *)

\* The positions of the steps named name among the steps of the last DELETE
StepsNamed(name) == {i \in 1..Len(destroy_events) : destroy_events[i].name = name}

\* C10: in perform_destroy a before_delete callback that is set runs first,
\* while the instance's row is still in the table; the after_delete callback
\* runs only after a deletion that completed, the row gone; if before_delete
\* raises the row stays, there is no deletion and after_delete is not
\* invoked; if the deletion raises after_delete is not invoked.
C10_DeleteCallbackOrder ==
    destroy_instance /= None =>
        /\ ~destroy_callbacks.before_delete.is_none => StepsNamed("before_delete") = {1}
        /\ \A i \in StepsNamed("before_delete") :
               /\ destroy_events[i].in_db
               /\ \A j \in StepsNamed("delete") : i < j
               /\ destroy_events[i].raised =>
                      /\ destroy_instance \in db
                      /\ StepsNamed("delete") = {}
                      /\ StepsNamed("after_delete") = {}
        /\ \A i \in StepsNamed("after_delete") :
               /\ ~destroy_events[i].in_db
               /\ destroy_instance \notin db
               /\ \E j \in StepsNamed("delete") : j < i /\ ~destroy_events[j].raised
        /\ \A j \in StepsNamed("delete") :
               destroy_events[j].raised =>
                   (StepsNamed("after_delete") = {} /\ destroy_instance \in db)

\* C10 witness: both callbacks are set and return, the deletion completes:
\* before_delete, the deletion, after_delete, in this order, and the row is gone
C10_Witness ==
    /\ destroy_instance /= None
    /\ destroy_callbacks.before_delete = Some(Callable(FALSE, NoResponse))
    /\ destroy_callbacks.after_delete = Some(Callable(FALSE, NoResponse))
    /\ Len(destroy_events) = 3
    /\ destroy_events[1] = Event("before_delete", TRUE, FALSE)
    /\ destroy_events[2] = Event("delete", TRUE, FALSE)
    /\ destroy_events[3] = Event("after_delete", FALSE, FALSE)
    /\ destroy_instance \notin db


(* Claims about perform_list *)

\* The steps of perform_list in the order of C11, for the callbacks set
StepOrder(callbacks) ==
    <<"filter_queryset">>
        \o (IF callbacks.before_list.is_none THEN <<>> ELSE <<"before_list">>)
        \o <<"paginate_queryset", "serialize">>
        \o (IF callbacks.after_list.is_none THEN <<>> ELSE <<"after_list">>)

\* What the step named name of the last request was given
GivenTo(name) == pl_steps[CHOOSE i \in 1..Len(pl_steps) : pl_steps[i].name = name].given

\* C11: perform_list applies the filter backends to the queryset, then calls
\* before_list with the filtered queryset, paginates what before_list
\* returned, serializes the page, then calls after_list with the response
\* data; the response body is what after_list returned when one is set. A
\* call that raises has taken a prefix of these steps.
C11_ListStepsInOrder ==
    pl_request.served =>
        LET order == StepOrder(pl_callbacks)
            names == [i \in 1..Len(pl_steps) |-> pl_steps[i].name]
            filtered == filter_queryset(Rows, pl_request.excluded)
        IN  /\ Len(names) <= Len(order)
            /\ names = SubSeq(order, 1, Len(names))
            /\ GivenTo("filter_queryset") = Rows
            /\ InList("before_list", names) => GivenTo("before_list") = filtered
            /\ ~pl_result.body.raises =>
                   /\ names = order
                   /\ GivenTo("paginate_queryset") =
                          (IF pl_callbacks.before_list.is_none THEN filtered
                           ELSE CallBeforeList(pl_callbacks.before_list.value, filtered))
                   /\ GivenTo("serialize") =
                          (IF pl_request.paginated
                           THEN paginate_queryset(GivenTo("paginate_queryset"), TRUE).value
                           ELSE GivenTo("paginate_queryset"))
                   /\ ~pl_callbacks.after_list.is_none =>
                          /\ GivenTo("after_list") = SerializerData(GivenTo("serialize"))
                          /\ pl_result.body.returns.data =
                                 CallAfterList(pl_callbacks.after_list.value,
                                               ResponseData(GivenTo("after_list"),
                                                            pl_request.paginated, "serializer"))
                   /\ pl_callbacks.after_list.is_none =>
                          pl_result.body.returns.data =
                              ResponseData(SerializerData(GivenTo("serialize")),
                                           pl_request.paginated, "serializer")

\* C11 witness: both callbacks are set and return; the request excludes a2,
\* before_list reverses the filtered rows, the page of them is serialized
\* and after_list edits the response data
C11_Witness ==
    /\ pl_request = ListRequest(TRUE, {"a2"}, TRUE)
    /\ pl_callbacks.before_list = Some(ListCallback(FALSE, "reversed"))
    /\ pl_callbacks.after_list = Some(ListCallback(FALSE, "edited"))
    /\ pl_steps = <<Step("filter_queryset", <<"a1", "a2", "a3">>),
                    Step("before_list", <<"a1", "a3">>),
                    Step("paginate_queryset", <<"a3", "a1">>),
                    Step("serialize", <<"a3", "a1">>),
                    Step("after_list", <<[id |-> "a3"], [id |-> "a1"]>>)>>
    /\ pl_result.body.returns.data.edited_by = "after_list"


(* Claims about the lifecycle setters *)

\* The HTTP method of a lifecycle operation
OperationMethod(operation) ==
    IF operation = "create" THEN HTTP_POST
    ELSE IF operation = "update" THEN HTTP_PATCH
    ELSE IF operation = "delete" THEN HTTP_DELETE
    ELSE HTTP_GET

\* The last configuration call made on the builder
LastCall == builder_calls[Len(builder_calls)]

\* C12: each lifecycle setter stores its argument and warns exactly when the
\* HTTP method of its own operation (create: POST, update: PATCH, delete:
\* DELETE, get and list: GET) is not among the builder's allowed methods.
C12_SettersWarnByOwnMethod ==
    (builder_pc = "built" /\ builder_calls /= <<>>) =>
        \A i \in 1..Len(LIFECYCLE_SETTERS) :
            LIFECYCLE_SETTERS[i].name = LastCall.method =>
                /\ builder[LIFECYCLE_SETTERS[i].attribute] = LastCall.args[1]
                /\ (builder_result.warned <=>
                        ~InList(OperationMethod(LIFECYCLE_SETTERS[i].operation),
                                builder._allowed_methods.value))

-----------------------------------------------------------------------------
(* Claims about the representation of a to-many relationship *)

\* The smaller of two numbers
Smaller(a, b) == IF a < b THEN a ELSE b

\* C13: the representation of a to-many relationship is a list whose len() is
\* the real number of related objects (the count of the queryset, or the
\* length of another iterable), while iterating it yields the representations
\* of only the first min(real count, related_limit) related objects, in their
\* order.
C13_LiarListCountsAllShowsLimit ==
    call_name = "to_representation" =>
        /\ LiarLen(call_result) = Len(call_args.iterable.rows)
        /\ Len(LiarIter(call_result))
              = Smaller(Len(call_args.iterable.rows), call_args.related_limit)
        /\ \A i \in 1..Len(LiarIter(call_result)) :
              LiarIter(call_result)[i] = child_to_representation(call_args.iterable.rows[i])

\* C13 happens: a queryset of more related objects than the limit, in an
\* order that is not that of their keys, was represented by fewer items than
\* its len() tells
C13_Witness ==
    /\ call_name = "to_representation"
    /\ call_args.iterable.class = "QuerySet"
    /\ call_args.related_limit = 2
    /\ Len(call_args.iterable.rows) = 3
    /\ call_args.iterable.rows[1].pk = 3
    /\ LiarLen(call_result) = 3
    /\ Len(LiarIter(call_result)) = 2

-----------------------------------------------------------------------------
(* Claims about json_api_view *)

\* The callbacks of C14: <<method, multiple_resource, callback attribute,
\* whether its route is the collection's>>
ViewTable ==
    { <<"GET", TRUE, "_on_list_callback", TRUE>>,
      <<"GET", FALSE, "_on_get_callback", FALSE>>,
      <<"POST", TRUE, "_on_create_callback", TRUE>>,
      <<"POST", FALSE, "_on_create_callback", TRUE>>,
      <<"DELETE", TRUE, "_on_delete_callback", FALSE>>,
      <<"DELETE", FALSE, "_on_delete_callback", FALSE>>,
      <<"PATCH", TRUE, "_on_update_callback", FALSE>>,
      <<"PATCH", FALSE, "_on_update_callback", FALSE>> }

CallbackAttributes ==
    {"_on_list_callback", "_on_get_callback", "_on_create_callback",
     "_on_delete_callback", "_on_update_callback"}

\* The rows of the table for the arguments of the call
ViewRows == {r \in ViewTable : r[1] = call_args.method /\ r[2] = call_args.multiple_resource}

\* C14: json_api_view registers the decorated function as exactly one
\* callback, chosen by (method, multiple_resource): GET with
\* multiple_resource is list, GET without is get, POST is create, DELETE is
\* delete, PATCH is update, and any other method raises; get_urls of the
\* resulting builder yields exactly one route, the collection's for list and
\* create and the identifier's for get, update and delete.
C14_OneCallbackOneRoute ==
    /\ call_name \in {"json_api_view", "get_urls"} =>
          /\ call_result.raised <=> (ViewRows = {})
          /\ \A r \in ViewRows :
                \A attribute \in CallbackAttributes :
                    call_result.builder[attribute] =
                        IF attribute = r[3] THEN Some("func") ELSE NoneValue
    /\ call_name = "get_urls" =>
          /\ Len(call_result.urls) = 1
          /\ \A r \in ViewRows : (call_result.urls[1].identifier = None) <=> r[4]

\* C14 happens: the decorator of a GET of one resource registered the get
\* callback alone, and the routes of its builder are the detail route
C14_Witness ==
    /\ call_name = "get_urls"
    /\ call_args.method = "GET"
    /\ ~call_args.multiple_resource
    /\ call_result.builder._on_get_callback = Some("func")
    /\ call_result.builder._on_list_callback = NoneValue
    /\ Len(call_result.urls) = 1
    /\ call_result.urls[1].identifier = "id"
    /\ call_result.urls[1].actions = ("get" :> "get")

-----------------------------------------------------------------------------
(* Claims about get_urls of the model view builder *)

\* How many of the path segments of a prefix are the segment
RECURSIVE CountOf(_, _)
CountOf(segments, segment) ==
    IF segments = <<>> THEN 0
    ELSE (IF segments[1] = segment THEN 1 ELSE 0) + CountOf(Tail(segments), segment)

\* 'v<version without . and ->', of the version the builder was given
VersionSegment ==
    <<"v">> \o SelectSeq(builder_kwargs.api_version.value, LAMBDA c : c \notin {".", "-"})

\* The prefix the caller gave, or the one taken where none was given
GivenPrefix ==
    IF ~call_args.urls_prefix.is_none THEN call_args.urls_prefix.value
    ELSE IF builder_kwargs.is_admin.value THEN <<"a", "d", "m", "i", "n", "/">> ELSE <<>>

StartsWithAdmin(prefix) ==
    Len(prefix) >= 6 /\ SubSeq(prefix, 1, 6) = <<"a", "d", "m", "i", "n", "/">>

\* C15: in both rounds of the build, with an empty api_version no version
\* segment is added to the prefix; with a non-empty one the final prefix has
\* the path segment 'v<version without . and ->' exactly once, whatever
\* prefix the caller gave; a final prefix that is not empty ends with '/';
\* and where no prefix was given the final one starts with 'admin/' exactly
\* when is_admin is set.
C15_VersionSegmentOnce ==
    call_name = "get_urls" =>
        \A round \in 1..2 :
            /\ builder_kwargs.api_version.value = <<>> =>
                   split(call_result.prefixes[round], "/")
                       = split(GivenPrefix \o (IF GivenPrefix = <<>> \/ GivenPrefix[Len(GivenPrefix)] = "/"
                                               THEN <<>> ELSE <<"/">>), "/")
            /\ builder_kwargs.api_version.value /= <<>> =>
                   CountOf(split(call_result.prefixes[round], "/"), VersionSegment) = 1
            /\ call_result.prefixes[round] /= <<>> =>
                   call_result.prefixes[round][Len(call_result.prefixes[round])] = "/"
            /\ call_args.urls_prefix.is_none =>
                   (StartsWithAdmin(call_result.prefixes[round]) <=> builder_kwargs.is_admin.value)


\* What was declared of a kind with a flag before the last get_urls call
Declared(attribute, flag) ==
    AddedInOrder(call_args.calls, Len(call_args.calls), attribute, flag)

\* The list of a kind among the arguments given for the serializer of a flag
ArgumentOf(arguments, attribute, flag) ==
    IF attribute = "_fields" THEN arguments[flag].fields
    ELSE IF attribute = "_custom_fields" THEN arguments[flag].custom_fields
    ELSE IF attribute = "_relations" THEN arguments[flag].relations
    ELSE arguments[flag].generic_relations

\* C18: the Retrieve serializer is constructed with every field, custom
\* field, relation and generic relation declared with limit_to_on_retrieve
\* True plus every one declared with False, and nothing else (on the first
\* get_urls call: those of True, then those of False, in their order), while
\* the List serializer is constructed with only those declared with False.
C18_RetrieveHasBothListHasFalse ==
    call_name = "get_urls" =>
        \A attribute \in ListAttributes :
            /\ ArgumentOf(call_result.arguments, attribute, FALSE) = Declared(attribute, FALSE)
            /\ Range(ArgumentOf(call_result.arguments, attribute, TRUE))
                   = Range(Declared(attribute, TRUE)) \cup Range(Declared(attribute, FALSE))
            /\ call_args.builds = 1 =>
                   ArgumentOf(call_result.arguments, attribute, TRUE)
                       = Declared(attribute, TRUE) \o Declared(attribute, FALSE)

\* C18 happens: after fields without the flag and a custom field with it,
\* the first get_urls call constructed the List serializer with the two
\* fields alone and the Retrieve serializer with the fields and the custom
\* field
C18_Witness ==
    /\ call_name = "get_urls"
    /\ call_args.builds = 1
    /\ Len(call_args.calls) = 2
    /\ call_args.calls[1].method = "fields" /\ ~call_args.calls[1].limit_to_on_retrieve
    /\ call_args.calls[2].method = "add_custom_field" /\ call_args.calls[2].limit_to_on_retrieve
    /\ call_result.arguments[FALSE].fields = <<"title", "body">>
    /\ call_result.arguments[FALSE].custom_fields = <<>>
    /\ call_result.arguments[TRUE].fields = <<"title", "body">>
    /\ Len(call_result.arguments[TRUE].custom_fields) = 1
    /\ call_result.serializers["RetrievearticleSerializer"] = call_result.arguments[TRUE]


\* C19: get_urls leaves the configuration of the builder unchanged: after
\* any call, _fields, _custom_fields, _relations and _generic_relations hold
\* for each flag exactly the entries they held before it, so a get_urls call
\* that follows another with no configuration call between them gives the
\* serializer construction the same arguments.
C19_GetUrlsLeavesConfiguration ==
    [][call_args'.builds > call_args.builds =>
          /\ \A attribute \in ListAttributes : builder'[attribute] = builder[attribute]
          /\ (call_args.builds > 0 /\ call_args'.calls = call_args.calls) =>
                 call_result'.arguments = call_result.arguments]_vars

-----------------------------------------------------------------------------
(* Claims about override *)

\* The JSON:API method set
JsonApiMethods == {"GET", "POST", "PATCH", "DELETE"}

\* The methods of a list that are outside the set, in their order
Offending(methods) == SelectSeq(methods, LAMBDA method : method \notin JsonApiMethods)

\* The text of the exception that names the methods: their list as Python
\* prints it
NamesMethods(message, methods) ==
    message = "Cannot limit fields to HTTP Method of types: " \o ListRepr(methods)

\* C16: override, or the constructor, with an allowed_methods list that has
\* a method outside the JSON:API method set raises an exception that names
\* the offending methods, and raises before any attribute of the builder is
\* modified.
C16_InvalidMethodsRaiseFirst ==
    /\ (/\ call_name = "override"
        /\ "allowed_methods" \in DOMAIN call_args.passed
        /\ Offending(call_args.passed.allowed_methods) /= <<>>) =>
           /\ call_result.raised
           /\ NamesMethods(call_result.exc.message, Offending(call_args.passed.allowed_methods))
           /\ builder = call_args.self
    /\ (/\ builder_pc /= "new"
        /\ Offending(builder_kwargs.allowed_methods.value) /= <<>>) =>
           /\ builder_pc = "raised"
           /\ builder = NewObject
           /\ call_name = "none" =>
                  /\ builder_result.raised
                  /\ NamesMethods(builder_result.exc.message,
                                  Offending(builder_kwargs.allowed_methods.value))

\* C16 happens: an override that passed PATCH and put with a new version and
\* is_admin raised naming put, and the builder still has its version, its
\* methods and its is_admin
C16_Witness ==
    /\ call_name = "override"
    /\ DOMAIN call_args.passed = {"allowed_methods", "api_version", "is_admin"}
    /\ call_result.raised
    /\ call_result.exc.message = "Cannot limit fields to HTTP Method of types: ['put']"
    /\ builder_kwargs.api_version.value = <<"1", ".", "0">>
    /\ builder._api_version.value = <<"1", "0">>
    /\ builder._allowed_methods.value = <<"GET", "POST">>
    /\ builder._is_admin.value = FALSE

\* The attributes that an override call that passed these arguments may set
Overridden(passed) ==
    {ATTRIBUTES[i].attribute : i \in {j \in 1..Len(ATTRIBUTES) : ATTRIBUTES[j].kwarg \in DOMAIN passed}}
        \cup (IF "api_version" \in DOMAIN passed THEN {"_url_api_version"} ELSE {})
        \cup (IF "queryset" \in DOMAIN passed \/ "model" \in DOMAIN passed
              THEN {"_queryset"} ELSE {})

\* C20: override on an existing builder changes only the attributes whose
\* arguments are passed: every other attribute, always_include and a
\* queryset given at construction among them, keeps the value it had before
\* the call.
C20_OverrideChangesOnlyPassed ==
    call_name = "override" =>
        \A attribute \in DOMAIN call_args.self :
            attribute \notin Overridden(call_args.passed) =>
                builder[attribute] = call_args.self[attribute]

-----------------------------------------------------------------------------
(* Claims about json_api_dump *)

\* The declared relations
DeclaredRelations == {"author", "tags"}

\* What the claim says of the entry of one serialized object: exactly the
\* keys type, id, attributes and relationships; the given resource type;
\* every declared relation the object has among the relationships, wrapped
\* as {"data": ...} when with_data is set, and none among the attributes;
\* every other serialized field directly among the attributes
IsEntryOf(entry, object, resource_type, with_data) ==
    /\ entry.t = "dict"
    /\ DOMAIN entry.d = {"type", "id", "attributes", "relationships"}
    /\ entry.d["type"].t = "str" /\ entry.d["type"].s = resource_type
    /\ entry.d["id"] = object.d["id"]
    /\ entry.d["relationships"].t = "dict"
    /\ DOMAIN entry.d["relationships"].d = DeclaredRelations \cap DOMAIN object.d
    /\ with_data =>
           \A field \in DOMAIN entry.d["relationships"].d :
               /\ entry.d["relationships"].d[field].t = "dict"
               /\ DOMAIN entry.d["relationships"].d[field].d = {"data"}
    /\ entry.d["attributes"].t = "dict"
    /\ DOMAIN entry.d["attributes"].d = DOMAIN object.d \ (DeclaredRelations \cup {"id"})
    /\ \A field \in DOMAIN entry.d["attributes"].d :
           entry.d["attributes"].d[field] = object.d[field]

\* C17: json_api_dump returns, for each serialized object, an entry with
\* exactly the keys type, id, attributes and relationships, where type is
\* the given resource type, relationships holds every declared relation the
\* object has (taken out of the attributes, wrapped as {"data": ...} when
\* with_data is set) and attributes holds all the other serialized fields
\* directly, for any object, also one with an attribute whose value is a
\* dictionary; it returns a list for a list and one entry otherwise.
C17_DumpIsJsonApi ==
    call_name = "json_api_dump" =>
        IF call_args.objects.t = "list"
        THEN /\ call_result.t = "list"
             /\ Len(call_result.items) = Len(call_args.objects.items)
             /\ \A i \in 1..Len(call_result.items) :
                    IsEntryOf(call_result.items[i], call_args.objects.items[i],
                              call_args.resource_type, call_args.with_data)
        ELSE IsEntryOf(call_result, call_args.objects, call_args.resource_type,
                       call_args.with_data)

-----------------------------------------------------------------------------
(* C21: the serializers of a model, by name *)

\* _MODEL_TO_SERIALIZERS[model] of a namespace module, [] where the model
\* has no entry; and its serializers of a name
SerializersOf(registry, model) ==
    IF model \in DOMAIN registry.model_to_serializers
    THEN registry.model_to_serializers[model] ELSE <<>>
NamedSerializers(registry, model, serializer_name) ==
    SelectSeq(SerializersOf(registry, model), LAMBDA serializer : serializer.name = serializer_name)

\* The classes the last get_urls call made
MadeByCall ==
    { call_result.registry.constructed[i] :
          i \in (Len(call_result.before.constructed) + 1)..Len(call_result.registry.constructed) }

\* C21: after any sequence of builds the serializers registered for a model
\* have pairwise different names; and where the serializer name of a build
\* was already registered for the model of the builder, the build returns
\* the class that was registered and makes no class of that name, whatever
\* the builder declares
C21_OneSerializerPerName ==
    /\ \A model \in DOMAIN call_result.registry.model_to_serializers :
           \A i, j \in 1..Len(SerializersOf(call_result.registry, model)) :
               SerializersOf(call_result.registry, model)[i].name
                   = SerializersOf(call_result.registry, model)[j].name => i = j
    /\ call_name = "get_urls" =>
           \A flag \in BOOLEAN :
               NamedSerializers(call_result.before, call_args.self._model.value,
                                SerializerName(call_args.self, flag)) /= <<>>
               => /\ call_result.method_to_serializer[flag]
                         = NamedSerializers(call_result.before, call_args.self._model.value,
                                            SerializerName(call_args.self, flag))[1]
                  /\ \A class \in MadeByCall : class.name /= SerializerName(call_args.self, flag)
                  /\ NamedSerializers(call_result.registry, call_args.self._model.value,
                                      SerializerName(call_args.self, flag))
                         = NamedSerializers(call_result.before, call_args.self._model.value,
                                            SerializerName(call_args.self, flag))

\* A build found the List serializer of its model registered, made from
\* other arguments than the builder now declares, and returned it
C21_Witness ==
    /\ call_name = "get_urls"
    /\ NamedSerializers(call_result.before, call_args.self._model.value,
                        SerializerName(call_args.self, FALSE)) /= <<>>
    /\ call_result.found[FALSE]
    /\ call_result.method_to_serializer[FALSE].arguments
           /= SerializerArguments(call_args.self, FALSE)
    /\ call_result.method_to_serializer[FALSE].id <= Len(call_result.before.constructed)

-----------------------------------------------------------------------------
(* C22: the names of the namespace module *)

\* C22: after any sequence of builds every class that was made is the class
\* the namespace module has under its name, so that no name was ever given
\* to a second class
C22_NamespaceKeepsOnlyClass ==
    \A i \in 1..Len(call_result.registry.constructed) :
        /\ call_result.registry.constructed[i].name \in DOMAIN call_result.registry.globals
        /\ call_result.registry.globals[call_result.registry.constructed[i].name].id
               = call_result.registry.constructed[i].id

=============================================================================
